---------------------------- MODULE Spec2Model ----------------------------
(***************************************************************************)
(* A model of the feedback-analysis core: SentimentAnalyzer (clean_text,   *)
(* analyze_sentiment, analyze_batch), the pipeline's                       *)
(* run_sentiment_analysis, TopicExtractor (preprocess_text,                *)
(* extract_topics_kmeans, extract_topics_lda, assign_topics_to_documents,  *)
(* generate_topic_summary), and process_new_feedback run by the API and    *)
(* by the scheduler over the same database tables.                         *)
(*                                                                         *)
(* Text is a sequence of one-character strings.  Scores are fixed-point    *)
(* integers: a component score (compound, polarity, subjectivity) counts   *)
(* units of 1/ScoreUnit, a weight counts units of 1/WeightUnit, the        *)
(* combined score counts units of 1/(ScoreUnit*WeightUnit), and every      *)
(* field that the code passes through round(x, 4) counts units of 1/10^4.  *)
(* The arithmetic is exact; binary floating-point error is not modelled.   *)
(***************************************************************************)
EXTENDS Integers, Sequences, FiniteSets, TLC

VARIABLES
    pc,               \* position of the running call
    text,             \* argument of clean_text / analyze_sentiment
    vader_weight,     \* argument of analyze_sentiment
    textblob_weight,  \* argument of analyze_sentiment
    est,              \* what the two estimators answer if they are consulted
    result,           \* value returned (or exception raised) by analyze_sentiment
    cleaned,          \* clean_text(text)
    recleaned,        \* clean_text(clean_text(text))
    texts,            \* the documents of a batch, in input order
    answers,          \* answers[k]: what the estimators answer for texts[k]
    batch_size,       \* sub-batch size of the batch loop
    loop_i,           \* i: start of the current sub-batch (0-based)
    loop_idx,         \* idx (j in the pipeline): position inside the sub-batch
    results,          \* records appended so far
    stats,            \* the pipeline's statistics
    errors_before,    \* stats['errors'] when run_sentiment_analysis was called
    preprocessed,     \* preprocess_text(text)
    repreprocessed,   \* preprocess_text(preprocess_text(text))
    n_topics,         \* argument of extract_topics_kmeans / extract_topics_lda
    cluster_labels,   \* what KMeans.fit_predict answers if it is consulted
    topics,           \* topic list returned by the extraction (or given to assign)
    lda_topics,       \* topic list returned by extract_topics_lda
    document_topics,  \* value returned by assign_topics_to_documents
    summary,          \* value returned by generate_topic_summary
    arrived,          \* number of rows of the feedback table
    sentiment_analysis, \* rows of sentiment_analysis per feedback_id
    topic_analysis,   \* rows of topic_analysis per feedback_id
    run,              \* run[r]: position, frame and statistics of pipeline r
    faults            \* estimator and database failures so far

callVars == <<text, vader_weight, textblob_weight, est, result>>
cleanVars == <<cleaned, recleaned>>
loopVars == <<texts, answers, batch_size, loop_i, loop_idx, results>>
pipeVars == <<stats, errors_before>>
topicVars == <<preprocessed, repreprocessed, n_topics, cluster_labels, topics,
               lda_topics, document_topics>>
runVars == <<summary, arrived, sentiment_analysis, topic_analysis, run, faults>>
vars == <<pc, callVars, cleanVars, loopVars, pipeVars, topicVars, runVars>>

----------------------------------------------------------------------------
(* Bounds and sampled inputs *)

\* longest text passed to analyze_sentiment
MaxTextLen == 3
\* longest text passed to clean_text on its own
MaxCleanLen == 6
\* most documents in one batch
MaxDocs == 3
\* largest sub-batch size
MaxBatchSize == 3
\* half-width of the windows of component scores sampled around the values
\* that put the combined score on a label threshold
Spread == 2

\* a letter, two punctuation marks that clean_text keeps, one that it strips,
\* the mention/email sign, and a blank
Alphabet == {"w", ".", "!", ",", "@", " "}

Strings(n) == UNION {[1..k -> Alphabet] : k \in 0..n}

\* resolution of the component scores: 1/5000 = 0.0002
ScoreUnit == 5 * 1000
\* resolution of the weights: 1/10
WeightUnit == 5 * 2
\* units of the combined score in 1.0
CombinedUnit == ScoreUnit * WeightUnit
\* units of round(x, 4) in 1.0
RoundUnit == 10 * 1000

Abs(x) == IF x < 0 THEN -x ELSE x
Min(a, b) == IF a <= b THEN a ELSE b

\* num/den (den > 0) rounded to an integer, an exact tie going to the even
\* neighbour, as Python's round does
RoundHalfEven(num, den) ==
    LET q == num \div den
        r == num - q * den
    IN  IF 2 * r < den THEN q
        ELSE IF 2 * r > den THEN q + 1
        ELSE IF q % 2 = 0 THEN q ELSE q + 1

\* round(num/den, 4) in units of 1/RoundUnit, for a denominator that divides
\* RoundUnit or is a multiple of it
Round4(num, den) ==
    IF den % RoundUnit = 0 THEN RoundHalfEven(num, den \div RoundUnit)
    ELSE num * (RoundUnit \div den)

----------------------------------------------------------------------------
(* Python values handed to the analyzer.  kind is the Python type; chars   *)
(* is the text of a str; n is the value of a number, or the number of      *)
(* entries of a dict or list.                                              *)

PyNone == [kind |-> "none", chars |-> <<>>, n |-> 0]
PyStr(s) == [kind |-> "str", chars |-> s, n |-> 0]
PyInt(v) == [kind |-> "int", chars |-> <<>>, n |-> v]
PyNaN == [kind |-> "nan", chars |-> <<>>, n |-> 0]
PyDict(k) == [kind |-> "dict", chars |-> <<>>, n |-> k]
PyList(k) == [kind |-> "list", chars |-> <<>>, n |-> k]

\* bool(text), as in "if not text" / "if text"
Truthy(v) ==
    CASE v.kind = "none" -> FALSE
      [] v.kind = "str"  -> Len(v.chars) > 0
      [] v.kind = "int"  -> v.n # 0
      [] v.kind = "nan"  -> TRUE
      [] OTHER           -> v.n > 0

\* pd.isna(text) used as a condition: "true", "false", or "raise" when the
\* elementwise answer for a list of two or more entries is asked for its
\* truth value (ValueError: the truth value of an array is ambiguous)
IsNaCondition(v) ==
    CASE v.kind \in {"none", "nan"} -> "true"
      [] v.kind = "list" /\ v.n >= 2 -> "raise"
      [] OTHER -> "false"

----------------------------------------------------------------------------
(* clean_text *)

IsSpace(c) == c \in {" ", "\t", "\n"}
\* \w on the characters the model's texts can hold
IsWordChar(c) ==
    c \in {"a", "c", "d", "g", "h", "k", "o", "p", "r", "s", "t", "u", "w", "W",
           "5", "_"}
\* string.punctuation (without the backquote, which no TLA+ string holds)
Punctuation ==
    {"!", "\"", "#", "$", "%", "&", "'", "(", ")", "*", "+", ",", "-", ".", "/",
     ":", ";", "<", "=", ">", "?", "@", "[", "\\", "]", "^", "_", "{", "|", "}",
     "~"}
KeptPunctuation == {".", "!", "?"}

\* str.lower on one character
LowerChar(c) == IF c = "W" THEN "w" ELSE c
Lower(s) == [k \in 1..Len(s) |-> LowerChar(s[k])]

\* s[i..] starts with the literal p
StartsAt(s, i, p) ==
    /\ i + Len(p) - 1 <= Len(s)
    /\ \A k \in 1..Len(p) : s[i + k - 1] = p[k]

\* last index of the run of characters satisfying the class that starts at i
\* (i - 1 when s[i] is outside the class or beyond the end)
RECURSIVE NonSpaceRunEnd(_, _)
NonSpaceRunEnd(s, i) ==
    IF i > Len(s) \/ IsSpace(s[i]) THEN i - 1 ELSE NonSpaceRunEnd(s, i + 1)

RECURSIVE WordRunEnd(_, _)
WordRunEnd(s, i) ==
    IF i > Len(s) \/ ~IsWordChar(s[i]) THEN i - 1 ELSE WordRunEnd(s, i + 1)

\* the end of the match of  http\S+|www\.\S+  at i, or 0 when there is none
UrlMatchEnd(s, i) ==
    IF /\ \/ StartsAt(s, i, <<"h", "t", "t", "p">>)
          \/ StartsAt(s, i, <<"w", "w", "w", ".">>)
       /\ NonSpaceRunEnd(s, i + 4) >= i + 4
    THEN NonSpaceRunEnd(s, i + 4)
    ELSE 0

\* the end of the match of  @\w+|#\w+  at i, or 0
MentionMatchEnd(s, i) ==
    IF i <= Len(s) /\ s[i] \in {"@", "#"} /\ WordRunEnd(s, i + 1) >= i + 1
    THEN WordRunEnd(s, i + 1)
    ELSE 0

\* the end of the match of  \S+@\S+  at i, or 0: some '@' after i in the
\* run of non-blanks starting at i is followed by a non-blank
EmailMatchEnd(s, i) ==
    LET e == NonSpaceRunEnd(s, i)
    IN  IF \E j \in (i + 1)..(e - 1) : s[j] = "@" THEN e ELSE 0

\* re.sub(pattern, '', s): left to right, delete every match
RECURSIVE SubUrl(_, _)
SubUrl(s, i) ==
    IF i > Len(s) THEN <<>>
    ELSE IF UrlMatchEnd(s, i) > 0 THEN SubUrl(s, UrlMatchEnd(s, i) + 1)
    ELSE <<s[i]>> \o SubUrl(s, i + 1)

RECURSIVE SubMention(_, _)
SubMention(s, i) ==
    IF i > Len(s) THEN <<>>
    ELSE IF MentionMatchEnd(s, i) > 0 THEN SubMention(s, MentionMatchEnd(s, i) + 1)
    ELSE <<s[i]>> \o SubMention(s, i + 1)

RECURSIVE SubEmail(_, _)
SubEmail(s, i) ==
    IF i > Len(s) THEN <<>>
    ELSE IF EmailMatchEnd(s, i) > 0 THEN SubEmail(s, EmailMatchEnd(s, i) + 1)
    ELSE <<s[i]>> \o SubEmail(s, i + 1)

\* re.sub(r'\s+', ' ', s)
RECURSIVE CollapseSpace(_, _)
CollapseSpace(s, i) ==
    IF i > Len(s) THEN <<>>
    ELSE IF IsSpace(s[i])
         THEN IF i > 1 /\ IsSpace(s[i - 1]) THEN CollapseSpace(s, i + 1)
              ELSE <<" ">> \o CollapseSpace(s, i + 1)
    ELSE <<s[i]>> \o CollapseSpace(s, i + 1)

\* s.translate(...): delete string.punctuation except '.', '!' and '?'
StripPunctuation(s) ==
    SelectSeq(s, LAMBDA c : c \notin (Punctuation \ KeptPunctuation))

\* ' '.join(s.split()).strip(): single blanks between words, none around
RECURSIVE JoinSplit(_, _)
JoinSplit(s, i) ==
    IF i > Len(s) THEN <<>>
    ELSE IF ~IsSpace(s[i]) THEN <<s[i]>> \o JoinSplit(s, i + 1)
    ELSE IF \/ i = 1
            \/ IsSpace(s[i - 1])
            \/ \A k \in i..Len(s) : IsSpace(s[k])
         THEN JoinSplit(s, i + 1)
         ELSE <<" ">> \o JoinSplit(s, i + 1)

\* the body of clean_text for a str
CleanChars(s) ==
    LET lowered   == Lower(s)
        noUrl     == SubUrl(lowered, 1)
        noMention == SubMention(noUrl, 1)
        noEmail   == SubEmail(noMention, 1)
        collapsed == CollapseSpace(noEmail, 1)
        stripped  == StripPunctuation(collapsed)
    IN  JoinSplit(stripped, 1)

\* clean_text(text): [raised, chars]
clean_text(v) ==
    CASE IsNaCondition(v) = "raise" -> [raised |-> TRUE, chars |-> <<>>]
      [] IsNaCondition(v) = "true"  -> [raised |-> FALSE, chars |-> <<>>]
      [] v.kind # "str"             -> [raised |-> FALSE, chars |-> <<>>]
      [] OTHER -> [raised |-> FALSE, chars |-> CleanChars(v.chars)]

----------------------------------------------------------------------------
(* analyze_sentiment *)

\* the label thresholds 0.05 and -0.05, in units of the combined score
PositiveThreshold == (5 * CombinedUnit) \div 100
NegativeThreshold == -((5 * CombinedUnit) \div 100)

\* What the estimators answer for a non-empty text: the scores, in units of
\* 1/ScoreUnit, or an exception.
EstimatorAnswer(vr, br, c, p, sub) ==
    [vader_raises |-> vr, textblob_raises |-> br,
     compound |-> c, polarity |-> p, subjectivity |-> sub]

\* analyze_sentiment_vader without its guard on the empty text
analyze_sentiment_vader_unguarded(chars, e) ==
    IF e.vader_raises THEN [raised |-> TRUE, called |-> TRUE, compound |-> 0]
    ELSE [raised |-> FALSE, called |-> TRUE, compound |-> e.compound]

\* analyze_sentiment_vader(text): the library is consulted only for a
\* non-empty text
analyze_sentiment_vader(chars, e) ==
    IF Len(chars) = 0 THEN [raised |-> FALSE, called |-> FALSE, compound |-> 0]
    ELSE IF e.vader_raises THEN [raised |-> TRUE, called |-> TRUE, compound |-> 0]
    ELSE [raised |-> FALSE, called |-> TRUE, compound |-> e.compound]

\* analyze_sentiment_textblob(text)
analyze_sentiment_textblob(chars, e) ==
    IF Len(chars) = 0
    THEN [raised |-> FALSE, called |-> FALSE, polarity |-> 0, subjectivity |-> 0]
    ELSE IF e.textblob_raises
    THEN [raised |-> TRUE, called |-> TRUE, polarity |-> 0, subjectivity |-> 0]
    ELSE [raised |-> FALSE, called |-> TRUE,
          polarity |-> e.polarity, subjectivity |-> e.subjectivity]

\* The dict analyze_sentiment returns, its numbers in units of 1/RoundUnit.
\* raised says that an exception left the call instead; vader_called and
\* textblob_called record whether the estimator libraries were consulted.
SentimentResult(sc, lab, conf, vc, tp, sub, vcalled, bcalled) ==
    [raised |-> FALSE, score |-> sc, label |-> lab, confidence |-> conf,
     vader_compound |-> vc, textblob_polarity |-> tp, subjectivity |-> sub,
     vader_called |-> vcalled, textblob_called |-> bcalled]

ZeroResult == SentimentResult(0, "Neutral", 0, 0, 0, 0, FALSE, FALSE)

RaisedResult(vcalled, bcalled) ==
    [ZeroResult EXCEPT !.raised = TRUE, !.label = "raised",
                       !.vader_called = vcalled, !.textblob_called = bcalled]

\* combined_score = vader_compound * vader_weight + textblob_polarity * textblob_weight
CombinedScore(vc, tp, vw, tw) == (vc * vw) + (tp * tw)

\* the label with strict comparisons
LabelOfStrict(combined) ==
    IF combined > PositiveThreshold THEN "Positive"
    ELSE IF combined < NegativeThreshold THEN "Negative"
    ELSE "Neutral"

\* the label of a combined score
LabelOf(combined) ==
    IF combined >= PositiveThreshold THEN "Positive"
    ELSE IF combined <= NegativeThreshold THEN "Negative"
    ELSE "Neutral"

\* the confidence with the agreement factor 1 - |vc - tp|, not halved
ConfidenceNumNotHalved(combined, vc, tp) ==
    Min(Abs(combined) * 2 * (ScoreUnit - Abs(vc - tp)), CombinedUnit * 2 * ScoreUnit)

\* min(|combined| * (1 - |vc - tp| / 2), 1.0) as the fraction
\* num / (CombinedUnit * 2 * ScoreUnit): its numerator
ConfidenceNum(combined, vc, tp) ==
    Min(Abs(combined) * ((2 * ScoreUnit) - Abs(vc - tp)), CombinedUnit * 2 * ScoreUnit)

analyze_sentiment(v, vw, tw, e) ==
    IF ~Truthy(v) THEN ZeroResult
    ELSE
    LET c == clean_text(v) IN
    IF c.raised THEN RaisedResult(FALSE, FALSE)
    ELSE
    LET vs == analyze_sentiment_vader(c.chars, e) IN
    IF vs.raised THEN RaisedResult(TRUE, FALSE)
    ELSE
    LET ts == analyze_sentiment_textblob(c.chars, e) IN
    IF ts.raised THEN RaisedResult(TRUE, TRUE)
    ELSE
    LET combined == CombinedScore(vs.compound, ts.polarity, vw, tw)
    IN  SentimentResult(
            Round4(combined, CombinedUnit),
            LabelOf(combined),
            Round4(ConfidenceNum(combined, vs.compound, ts.polarity),
                   CombinedUnit * 2 * ScoreUnit),
            Round4(vs.compound, ScoreUnit),
            Round4(ts.polarity, ScoreUnit),
            Round4(ts.subjectivity, ScoreUnit),
            vs.called, ts.called)

----------------------------------------------------------------------------
(* Sampled arguments *)

\* values a caller may pass as text
StringInputs == {PyStr(s) : s \in Strings(MaxTextLen)}
OtherInputs ==
    {PyNone, PyNaN, PyInt(0), PyInt(123), PyDict(0), PyDict(1),
     PyList(0), PyList(1), PyList(2)}

Signed(S) == S \cup {-x : x \in S}

\* compound scores: the ends of the range, zero, and a window around 0.0832,
\* where 0.6 * compound crosses 0.05
CompoundSamples ==
    Signed({0, ScoreUnit} \cup {416 + d : d \in -Spread..Spread})

\* polarity scores: the ends of the range, a window around zero and one
\* around 0.125, where 0.4 * polarity crosses 0.05
PolaritySamples ==
    Signed({ScoreUnit} \cup (0..Spread) \cup {625 + d : d \in -Spread..Spread})

SubjectivitySamples == {0, ScoreUnit}

\* weights in tenths: the defaults 0.6 and 0.4, and 0 and 1.0
DefaultVaderWeight == 6
DefaultTextblobWeight == 4
WeightSamples == {0, DefaultTextblobWeight, DefaultVaderWeight, WeightUnit}

RaisingAnswers ==
    {EstimatorAnswer(TRUE, FALSE, 0, 0, 0), EstimatorAnswer(FALSE, TRUE, 0, 0, 0)}
ScoreAnswers ==
    {EstimatorAnswer(FALSE, FALSE, c, p, sub) :
        c \in CompoundSamples, p \in PolaritySamples, sub \in SubjectivitySamples}
FewAnswers ==
    RaisingAnswers \cup
    {EstimatorAnswer(FALSE, FALSE, ScoreUnit, ScoreUnit, ScoreUnit),
     EstimatorAnswer(FALSE, FALSE, -416, 2, 0)}

NoResult == [ZeroResult EXCEPT !.label = "none"]
NoText == [raised |-> FALSE, chars |-> <<>>]
\* a list-valued result: [raised, list]
NoTopicList == [raised |-> FALSE, list |-> <<>>]
\* the value returned by an extraction: raised (an exception left the
\* call), failed (an exception was caught inside it), the topic list, and
\* how often the vectorizer and the clustering were run
ExtractionResult(r, f, l, fits, runs) ==
    [raised |-> r, failed |-> f, list |-> l, fit_calls |-> fits, cluster_calls |-> runs]

NoExtraction == ExtractionResult(FALSE, FALSE, <<>>, 0, 0)

\* the variables of the batch loop and of the pipeline, while unused
NoLoop ==
    /\ texts = <<>>
    /\ answers = <<>>
    /\ batch_size = 0
    /\ loop_i = 0
    /\ loop_idx = 0
    /\ results = <<>>
NoPipeline ==
    /\ stats = [errors |-> 0, sentiment_analyzed |-> 0]
    /\ errors_before = 0
\* the variables of the topic engine, while unused
NoTopics ==
    /\ preprocessed = NoText
    /\ repreprocessed = NoText
    /\ n_topics = 0
    /\ cluster_labels = <<>>
    /\ topics = NoExtraction
    /\ lda_topics = NoExtraction
    /\ document_topics = NoTopicList
\* no summary has been asked for
NoSummary == [total_topics |-> 0, topics_summary |-> <<>>]
\* most rows of the feedback table
MaxFeedback == 3

\* the two pipelines that can run at once: the one POST /pipeline/run
\* starts as a background task and the one the scheduler starts
Runs == {"api", "scheduled"}

\* self.stats after the constructor; success_rate is kept in hundredths of
\* a percent
FreshStats ==
    [feedback_processed |-> 0, sentiment_analyzed |-> 0, topics_extracted |-> 0,
     errors |-> 0, success_rate |-> 0]

\* a pipeline between two runs
IdleRun == [pc |-> "idle", feedback_df |-> <<>>, stats |-> FreshStats, returned |-> "none"]

\* empty tables and idle pipelines
NoDatabase ==
    /\ arrived = 0
    /\ sentiment_analysis = [f \in 1..MaxFeedback |-> 0]
    /\ topic_analysis = [f \in 1..MaxFeedback |-> 0]
    /\ run = [r \in Runs |-> IdleRun]
    /\ faults = 0

NoRun ==
    /\ summary = NoSummary
    /\ NoDatabase
NoCall ==
    /\ text = PyNone
    /\ est = EstimatorAnswer(FALSE, FALSE, 0, 0, 0)
    /\ result = NoResult
    /\ cleaned = NoText
    /\ recleaned = NoText

----------------------------------------------------------------------------
(* One call of analyze_sentiment *)

\* every input value with a few estimator answers, and every sampled score
\* and weight with one plain text
InitSentiment ==
    /\ pc = "call"
    /\ \/ /\ text \in StringInputs \cup OtherInputs
          /\ \E w \in {<<DefaultVaderWeight, DefaultTextblobWeight>>,
                       <<WeightUnit, WeightUnit>>} :
                /\ vader_weight = w[1]
                /\ textblob_weight = w[2]
          /\ est \in FewAnswers
       \/ /\ text = PyStr(<<"w">>)
          /\ vader_weight \in WeightSamples
          /\ textblob_weight \in WeightSamples
          /\ est \in ScoreAnswers
    /\ result = NoResult
    /\ cleaned = NoText
    /\ recleaned = NoText
    /\ NoLoop
    /\ NoPipeline
    /\ NoTopics
    /\ NoRun

AnalyzeSentiment ==
    /\ pc = "call"
    /\ result' = analyze_sentiment(text, vader_weight, textblob_weight, est)
    /\ pc' = "returned"
    /\ UNCHANGED <<text, vader_weight, textblob_weight, est, cleanVars, loopVars, pipeVars, topicVars, runVars>>

NextSentiment == AnalyzeSentiment

Spec == InitSentiment /\ [][NextSentiment]_vars

----------------------------------------------------------------------------
(* clean_text applied to a text, and again to its own output *)

InitClean ==
    /\ pc = "clean"
    /\ text \in {PyStr(s) : s \in Strings(MaxCleanLen)} \cup {PyNone, PyNaN, PyInt(123)}
    /\ vader_weight = DefaultVaderWeight
    /\ textblob_weight = DefaultTextblobWeight
    /\ est = EstimatorAnswer(FALSE, FALSE, 0, 0, 0)
    /\ result = NoResult
    /\ cleaned = NoText
    /\ recleaned = NoText
    /\ NoLoop
    /\ NoPipeline
    /\ NoTopics
    /\ NoRun

CleanText ==
    /\ pc = "clean"
    /\ cleaned' = clean_text(text)
    /\ pc' = "cleaned"
    /\ UNCHANGED <<callVars, recleaned, loopVars, pipeVars, topicVars, runVars>>

CleanAgain ==
    /\ pc = "cleaned"
    /\ recleaned' = clean_text(PyStr(cleaned.chars))
    /\ pc' = "recleaned"
    /\ UNCHANGED <<callVars, cleaned, loopVars, pipeVars, topicVars, runVars>>

NextClean == CleanText \/ CleanAgain

SpecClean == InitClean /\ [][NextClean]_vars

----------------------------------------------------------------------------
(* Claims about analyze_sentiment and clean_text *)

Returned == pc = "returned" /\ ~result.raised

\* the component scores the call combined: the estimators' answers when they
\* were consulted, zero otherwise
UsedCompound == IF result.vader_called THEN est.compound ELSE 0
UsedPolarity == IF result.textblob_called THEN est.polarity ELSE 0
UsedCombined == (vader_weight * UsedCompound) + (textblob_weight * UsedPolarity)

\* C1: the label is Positive exactly when the weighted sum
\* vader_weight*compound + textblob_weight*polarity is >= 0.05, Negative
\* exactly when it is <= -0.05 and Neutral otherwise, for every sampled pair
\* of component scores and of weights.
C1_LabelByThresholds ==
    Returned =>
        /\ (result.label = "Positive") <=> (100 * UsedCombined >= 5 * CombinedUnit)
        /\ (result.label = "Negative") <=> (100 * UsedCombined <= -(5 * CombinedUnit))
        /\ (result.label = "Neutral") <=>
              (/\ 100 * UsedCombined < 5 * CombinedUnit
               /\ 100 * UsedCombined > -(5 * CombinedUnit))

\* a call whose weighted sum is exactly 0.05, with weights other than the
\* defaults, labelled Positive
C1_Witness ==
    /\ Returned
    /\ result.vader_called
    /\ vader_weight = WeightUnit
    /\ 100 * UsedCombined = 5 * CombinedUnit
    /\ result.label = "Positive"

\* the label the thresholds give to a returned (rounded) score
LabelOfReturnedScore(sc) ==
    IF 100 * sc >= 5 * RoundUnit THEN "Positive"
    ELSE IF 100 * sc <= -(5 * RoundUnit) THEN "Negative"
    ELSE "Neutral"

\* C2: the returned label is the label that the thresholds give to the
\* returned score field.
C2_LabelFunctionOfReturnedScore ==
    Returned => result.label = LabelOfReturnedScore(result.score)

\* C3: for None, the empty string and every string that clean_text reduces
\* to the empty string, with any weights, the call returns the zero result
\* and consults neither estimator.
C3_EmptyTextZeroResult ==
    (/\ pc = "returned"
     /\ text.kind \in {"none", "str"}
     /\ CleanChars(text.chars) = <<>>) =>
        /\ ~result.raised
        /\ result.score = 0 /\ result.label = "Neutral" /\ result.confidence = 0
        /\ result.vader_compound = 0 /\ result.textblob_polarity = 0
        /\ result.subjectivity = 0
        /\ ~result.vader_called /\ ~result.textblob_called

\* a blank-only string, weights (1.0, 1.0), an estimator that would raise
\* if it were consulted, and the zero result
C3_Witness ==
    /\ pc = "returned"
    /\ text = PyStr(<<" ", " ">>)
    /\ vader_weight = WeightUnit
    /\ est.vader_raises
    /\ result = ZeroResult

\* C7: no exception leaves analyze_sentiment, whatever the input value (the
\* estimators themselves not failing).
C7_NoExceptionForAnyInput ==
    (pc = "returned" /\ ~est.vader_raises /\ ~est.textblob_raises) => ~result.raised

\* C8: with the default weights and component scores inside their ranges,
\* -1 <= score <= 1, 0 <= confidence <= 1, 0 <= subjectivity <= 1, and the
\* confidence is min(|combined| * (1 - |compound - polarity| / 2), 1.0)
\* rounded to four decimals.
C8_ScoreRanges ==
    (/\ Returned
     /\ vader_weight = DefaultVaderWeight
     /\ textblob_weight = DefaultTextblobWeight) =>
        LET den == 2 * ScoreUnit * (CombinedUnit \div RoundUnit)
            raw == Abs(UsedCombined) * ((2 * ScoreUnit) - Abs(UsedCompound - UsedPolarity))
            capped == IF raw > den * RoundUnit THEN den * RoundUnit ELSE raw
        IN  /\ -RoundUnit <= result.score /\ result.score <= RoundUnit
            /\ 0 <= result.confidence /\ result.confidence <= RoundUnit
            /\ 0 <= result.subjectivity /\ result.subjectivity <= RoundUnit
            /\ 2 * Abs((result.confidence * den) - capped) <= den

\* default weights, both estimators at +1: score 1 and confidence 1
C8_Witness ==
    /\ Returned
    /\ vader_weight = DefaultVaderWeight
    /\ textblob_weight = DefaultTextblobWeight
    /\ est.compound = ScoreUnit /\ est.polarity = ScoreUnit
    /\ result.score = RoundUnit
    /\ result.confidence = RoundUnit

PunctuationOnly(v) ==
    /\ v.kind = "str"
    /\ Len(v.chars) > 0
    /\ \A k \in 1..Len(v.chars) : v.chars[k] \in Punctuation

\* C9: a text of punctuation characters only ('.', '!' and '?' included) is
\* cleaned to the empty string, so analyze_sentiment returns the zero result
\* without consulting the estimators.
C9_PunctuationOnlyIsEmpty ==
    (pc = "returned" /\ PunctuationOnly(text)) =>
        /\ clean_text(text).chars = <<>>
        /\ result = ZeroResult

\* C10: clean_text(clean_text(t)) = clean_text(t) for every text t.
C10_CleanTextIdempotent ==
    pc = "recleaned" => recleaned = cleaned

----------------------------------------------------------------------------
(* analyze_batch *)

\* the record appended for a document that was scored
BatchRecord(r, id, v, ctext) ==
    [text_id |-> id, score |-> r.score, label |-> r.label,
     confidence |-> r.confidence, vader_compound |-> r.vader_compound,
     textblob_polarity |-> r.textblob_polarity, subjectivity |-> r.subjectivity,
     original_text |-> v, cleaned_text |-> ctext]

\* the record appended by the except branch
FailureRecord(id, v) ==
    [text_id |-> id, score |-> 0, label |-> "Neutral", confidence |-> 0,
     vader_compound |-> 0, textblob_polarity |-> 0, subjectivity |-> 0,
     original_text |-> v, cleaned_text |-> <<>>]

\* text_id without the start of the sub-batch
TextIdInSubBatch(start, pos) == pos

\* text_id of the document at position idx of the sub-batch starting at i
TextId(start, pos) == start + pos

\* the body of the loop over one document: the try block, or the except
\* branch when analyze_sentiment or clean_text raises
DocumentRecord(v, e, id) ==
    LET r == analyze_sentiment(v, DefaultVaderWeight, DefaultTextblobWeight, e)
        c == IF Truthy(v) THEN clean_text(v) ELSE NoText
    IN  IF r.raised \/ c.raised THEN FailureRecord(id, v)
        ELSE BatchRecord(r, id, v, c.chars)

\* len(texts[i:i + batch_size]) for a positive batch_size
SubBatchLen(n, start, size) == Min(size, n - start)

\* documents and estimator answers of a batch
BatchDocs == {PyNone, PyStr(<<"w">>), PyStr(<<" ", ",">>), PyList(2)}
BatchAnswers ==
    {EstimatorAnswer(TRUE, FALSE, 0, 0, 0),
     EstimatorAnswer(FALSE, FALSE, ScoreUnit, ScoreUnit, ScoreUnit)}

InitBatch ==
    /\ pc = "batch_call"
    /\ \E n \in 0..MaxDocs :
          /\ texts \in [1..n -> BatchDocs]
          /\ answers \in [1..n -> BatchAnswers]
    /\ batch_size \in -1..MaxBatchSize
    /\ loop_i = 0
    /\ loop_idx = 0
    /\ results = <<>>
    /\ vader_weight = DefaultVaderWeight
    /\ textblob_weight = DefaultTextblobWeight
    /\ NoCall
    /\ NoPipeline
    /\ NoTopics
    /\ NoRun

\* for i in range(0, len(texts), batch_size): a zero step raises ValueError
BatchEnter ==
    /\ pc = "batch_call"
    /\ pc' = IF batch_size = 0 THEN "batch_raised" ELSE "batch_outer"
    /\ UNCHANGED <<callVars, cleanVars, loopVars, pipeVars, topicVars, runVars>>

\* the range yields its next i and the inner loop starts
BatchNextSubBatch ==
    /\ pc = "batch_outer"
    /\ batch_size > 0 /\ loop_i < Len(texts)
    /\ loop_idx' = 0
    /\ pc' = "batch_inner"
    /\ UNCHANGED <<callVars, cleanVars, texts, answers, batch_size, loop_i, results, pipeVars, topicVars, runVars>>

\* one document, the except branch ending the batch
BatchDocumentAborting ==
    /\ pc = "batch_inner"
    /\ loop_idx < SubBatchLen(Len(texts), loop_i, batch_size)
    /\ LET k == loop_i + loop_idx + 1
           rec == DocumentRecord(texts[k], answers[k], TextId(loop_i, loop_idx))
           failed == analyze_sentiment(texts[k], DefaultVaderWeight,
                                       DefaultTextblobWeight, answers[k]).raised
       IN  /\ results' = Append(results, rec)
           /\ pc' = IF failed THEN "batch_returned" ELSE pc
    /\ loop_idx' = loop_idx + 1
    /\ UNCHANGED <<callVars, cleanVars, texts, answers, batch_size, loop_i, pipeVars, topicVars, runVars>>

\* one document: results.append(...)
BatchDocument ==
    /\ pc = "batch_inner"
    /\ loop_idx < SubBatchLen(Len(texts), loop_i, batch_size)
    /\ LET k == loop_i + loop_idx + 1
       IN  results' = Append(results,
                DocumentRecord(texts[k], answers[k], TextId(loop_i, loop_idx)))
    /\ loop_idx' = loop_idx + 1
    /\ UNCHANGED <<pc, callVars, cleanVars, texts, answers, batch_size, loop_i, pipeVars, topicVars, runVars>>

\* the sub-batch is exhausted (progress is logged)
BatchEndSubBatch ==
    /\ pc = "batch_inner"
    /\ loop_idx >= SubBatchLen(Len(texts), loop_i, batch_size)
    /\ loop_i' = loop_i + batch_size
    /\ pc' = "batch_outer"
    /\ UNCHANGED <<callVars, cleanVars, texts, answers, batch_size, loop_idx, results, pipeVars, topicVars, runVars>>

\* the range is exhausted: return pd.DataFrame(results)
BatchReturn ==
    /\ pc = "batch_outer"
    /\ ~(batch_size > 0 /\ loop_i < Len(texts))
    /\ pc' = "batch_returned"
    /\ UNCHANGED <<callVars, cleanVars, loopVars, pipeVars, topicVars, runVars>>

NextBatch ==
    \/ BatchEnter
    \/ BatchNextSubBatch
    \/ BatchDocument
    \/ BatchEndSubBatch
    \/ BatchReturn

SpecBatch == InitBatch /\ [][NextBatch]_vars

----------------------------------------------------------------------------
(* Claims about analyze_batch *)

\* document k (0-based) fails during scoring: analyze_sentiment raises on it
ScoringFails(k) ==
    analyze_sentiment(texts[k + 1], DefaultVaderWeight, DefaultTextblobWeight,
                      answers[k + 1]).raised

FailedDocs == {k \in 0..(Len(texts) - 1) : ScoringFails(k)}

\* C4: analyze_batch on N texts returns exactly N records in input order,
\* the k-th with text_id = k and original_text = texts[k], whichever
\* documents fail (for every positive sub-batch size).
C4_OneRecordPerDocumentInOrder ==
    (pc = "batch_returned" /\ batch_size >= 1) =>
        /\ Len(results) = Len(texts)
        /\ \A k \in 0..(Len(texts) - 1) :
              /\ results[k + 1].text_id = k
              /\ results[k + 1].original_text = texts[k + 1]

\* a batch of three split into sub-batches of two, its middle document
\* failing, three records returned
C4_Witness ==
    /\ pc = "batch_returned"
    /\ batch_size = 2
    /\ Len(texts) = 3
    /\ FailedDocs = {1}
    /\ Len(results) = 3
    /\ results[3].text_id = 2

\* the record of one analyze_sentiment call on v, outside any batch
StandaloneRecord(v, e, k) ==
    LET r == analyze_sentiment(v, DefaultVaderWeight, DefaultTextblobWeight, e)
    IN  [text_id |-> k, score |-> r.score, label |-> r.label,
         confidence |-> r.confidence, vader_compound |-> r.vader_compound,
         textblob_polarity |-> r.textblob_polarity,
         subjectivity |-> r.subjectivity, original_text |-> v,
         cleaned_text |-> IF Truthy(v) THEN clean_text(v).chars ELSE <<>>]

\* C5: the record of a document whose scoring raises is the zero/Neutral
\* record with an empty cleaned_text, and the record of every other
\* document is the one its own scoring gives, whichever documents fail.
C5_FailureIsolated ==
    (pc = "batch_returned" /\ batch_size >= 1) =>
        /\ Len(results) = Len(texts)
        /\ \A k \in 0..(Len(texts) - 1) :
              IF k \in FailedDocs
              THEN /\ results[k + 1].score = 0
                   /\ results[k + 1].label = "Neutral"
                   /\ results[k + 1].confidence = 0
                   /\ results[k + 1].vader_compound = 0
                   /\ results[k + 1].textblob_polarity = 0
                   /\ results[k + 1].subjectivity = 0
                   /\ results[k + 1].cleaned_text = <<>>
              ELSE results[k + 1] = StandaloneRecord(texts[k + 1], answers[k + 1], k)

\* the first document fails, the second is scored Positive after it
C5_Witness ==
    /\ pc = "batch_returned"
    /\ batch_size >= 1
    /\ Len(texts) >= 2
    /\ 0 \in FailedDocs
    /\ 1 \notin FailedDocs
    /\ results[1].label = "Neutral"
    /\ results[2].label = "Positive"

----------------------------------------------------------------------------
(* FeedbackAnalysisPipeline.run_sentiment_analysis *)

\* feedback_id of the row at position k (0-based) of feedback_df
FeedbackIdOf(k) == 100 + k

\* the record appended for a row that was scored
SentimentRow(r, id) ==
    [feedback_id |-> id, sentiment_score |-> r.score, sentiment_label |-> r.label,
     confidence_score |-> r.confidence, vader_compound |-> r.vader_compound,
     textblob_polarity |-> r.textblob_polarity, subjectivity |-> r.subjectivity]

\* feedback_text after fillna('')
PipelineDocs == {PyStr(<<>>), PyStr(<<"w">>)}

\* validate_config on the two weights: it raises ValueError when
\* abs(vader_weight + textblob_weight - 1.0) > 0.01 and checks nothing else
\* about them
WeightsAccepted(vw, tw) == Abs((vw + tw) - WeightUnit) * 100 <= WeightUnit

\* weights a configuration file may hold: the defaults, VADER alone, a
\* negative TextBlob weight, and both weights 1.0
ConfigWeightSamples ==
    {<<DefaultVaderWeight, DefaultTextblobWeight>>, <<WeightUnit, 0>>,
     <<2 * WeightUnit, -WeightUnit>>, <<WeightUnit, WeightUnit>>}

\* the weights of a configuration validate_config accepts
ConfigWeights == {w \in ConfigWeightSamples : WeightsAccepted(w[1], w[2])}

\* what the estimators answer for a row: as in a batch, or the two
\* estimators disagreeing at the ends of their ranges
PipelineAnswers ==
    BatchAnswers \cup {EstimatorAnswer(FALSE, FALSE, ScoreUnit, -ScoreUnit, ScoreUnit)}

InitPipeline ==
    /\ pc = "pipeline_call"
    /\ \E n \in 0..MaxDocs :
          /\ texts \in [1..n -> PipelineDocs]
          /\ answers \in [1..n -> PipelineAnswers]
    /\ batch_size \in -1..MaxBatchSize
    /\ loop_i = 0
    /\ loop_idx = 0
    /\ results = <<>>
    /\ \E w \in ConfigWeights :
          /\ vader_weight = w[1]
          /\ textblob_weight = w[2]
    /\ stats \in [errors : 0..1, sentiment_analyzed : 0..1]
    /\ errors_before = stats.errors
    /\ NoCall
    /\ NoTopics
    /\ NoRun

\* the guard on an empty frame, then range(0, len(texts), batch_size): a
\* zero step raises ValueError into the outer except branch
PipelineEnter ==
    /\ pc = "pipeline_call"
    /\ IF Len(texts) = 0
       THEN pc' = "pipeline_returned" /\ UNCHANGED stats
       ELSE IF batch_size = 0
       THEN /\ pc' = "pipeline_returned"
            /\ stats' = [stats EXCEPT !.errors = @ + 1]
       ELSE pc' = "pipeline_outer" /\ UNCHANGED stats
    /\ UNCHANGED <<callVars, cleanVars, loopVars, errors_before, topicVars, runVars>>

PipelineNextSubBatch ==
    /\ pc = "pipeline_outer"
    /\ batch_size > 0 /\ loop_i < Len(texts)
    /\ loop_idx' = 0
    /\ pc' = "pipeline_inner"
    /\ UNCHANGED <<callVars, cleanVars, texts, answers, batch_size, loop_i, results, pipeVars, topicVars, runVars>>

\* one row, the except branch not counting the error
PipelineDocumentUncounted ==
    /\ pc = "pipeline_inner"
    /\ loop_idx < SubBatchLen(Len(texts), loop_i, batch_size)
    /\ LET k == loop_i + loop_idx + 1
           r == analyze_sentiment(texts[k], vader_weight, textblob_weight, answers[k])
       IN  IF r.raised
           THEN UNCHANGED results
           ELSE results' = Append(results, SentimentRow(r, FeedbackIdOf(k - 1)))
    /\ loop_idx' = loop_idx + 1
    /\ UNCHANGED <<pc, callVars, cleanVars, texts, answers, batch_size, loop_i, pipeVars, topicVars, runVars>>

\* one row: the try block appends its record, the except branch counts
\* the error
PipelineDocument ==
    /\ pc = "pipeline_inner"
    /\ loop_idx < SubBatchLen(Len(texts), loop_i, batch_size)
    /\ LET k == loop_i + loop_idx + 1
           r == analyze_sentiment(texts[k], vader_weight, textblob_weight, answers[k])
       IN  IF r.raised
           THEN /\ stats' = [stats EXCEPT !.errors = @ + 1]
                /\ UNCHANGED results
           ELSE /\ results' = Append(results, SentimentRow(r, FeedbackIdOf(k - 1)))
                /\ UNCHANGED stats
    /\ loop_idx' = loop_idx + 1
    /\ UNCHANGED <<pc, callVars, cleanVars, texts, answers, batch_size, loop_i, errors_before, topicVars, runVars>>

PipelineEndSubBatch ==
    /\ pc = "pipeline_inner"
    /\ loop_idx >= SubBatchLen(Len(texts), loop_i, batch_size)
    /\ loop_i' = loop_i + batch_size
    /\ pc' = "pipeline_outer"
    /\ UNCHANGED <<callVars, cleanVars, texts, answers, batch_size, loop_idx, results, pipeVars, topicVars, runVars>>

\* self.stats['sentiment_analyzed'] = len(results_df); return results_df
PipelineReturn ==
    /\ pc = "pipeline_outer"
    /\ ~(batch_size > 0 /\ loop_i < Len(texts))
    /\ stats' = [stats EXCEPT !.sentiment_analyzed = Len(results)]
    /\ pc' = "pipeline_returned"
    /\ UNCHANGED <<callVars, cleanVars, loopVars, errors_before, topicVars, runVars>>

NextPipeline ==
    \/ PipelineEnter
    \/ PipelineNextSubBatch
    \/ PipelineDocument
    \/ PipelineEndSubBatch
    \/ PipelineReturn

SpecPipeline == InitPipeline /\ [][NextPipeline]_vars

----------------------------------------------------------------------------
(* Claims about run_sentiment_analysis *)

\* the rows whose scoring raises
FailedRows ==
    {k \in 0..(Len(texts) - 1) :
        analyze_sentiment(texts[k + 1], vader_weight, textblob_weight,
                          answers[k + 1]).raised}

\* the rows before position k that did not fail
ScoredBefore(k) == Cardinality((0..(k - 1)) \ FailedRows)

\* C6: over N feedback rows (N >= 1, positive sub-batch size), every
\* failed row adds exactly one to stats['errors'] and the rows after it are
\* still processed: sentiment_analyzed + failed = N, errors has grown by
\* the number of failed rows, and every other row has its record, in order.
C6_FailuresCounted ==
    (pc = "pipeline_returned" /\ Len(texts) >= 1 /\ batch_size >= 1) =>
        /\ stats.sentiment_analyzed + Cardinality(FailedRows) = Len(texts)
        /\ stats.errors = errors_before + Cardinality(FailedRows)
        /\ Len(results) = stats.sentiment_analyzed
        /\ \A k \in (0..(Len(texts) - 1)) \ FailedRows :
              results[ScoredBefore(k) + 1].feedback_id = FeedbackIdOf(k)

\* three rows in sub-batches of two, the middle one failing, on a pipeline
\* that had already counted one error
C6_Witness ==
    /\ pc = "pipeline_returned"
    /\ Len(texts) = 3
    /\ batch_size = 2
    /\ FailedRows = {1}
    /\ errors_before = 1
    /\ stats.errors = 2
    /\ stats.sentiment_analyzed = 2

----------------------------------------------------------------------------
(* preprocess_text: the normalisation of the topic engine *)

\* most pieces (words or single characters) concatenated into one text for
\* preprocess_text
MaxPieces == 3

\* the words the model's texts are made of
Dog == <<"d", "o", "g">>
Dogs == <<"d", "o", "g", "s">>
Cat == <<"c", "a", "t">>
Product == <<"p", "r", "o", "d", "u", "c", "t">>
Products == <<"p", "r", "o", "d", "u", "c", "t", "s">>
Ok == <<"o", "k">>

\* self.stop_words, restricted to the words of the model: 'product' is one
\* of the custom stopwords; none of the other words is in NLTK's English list
StopWords == {Product}

\* WordNetLemmatizer.lemmatize(token) on the tokens the model's texts can
\* produce: the plural nouns 'dogs' and 'products' go to their singular; a
\* token outside WordNet (every concatenation of the model's words) is
\* returned unchanged
lemmatize(token) ==
    IF token = Dogs THEN Dog
    ELSE IF token = Products THEN Product
    ELSE token

IsDigit(c) == c \in {"5"}

RECURSIVE DigitRunEnd(_, _)
DigitRunEnd(s, i) ==
    IF i > Len(s) \/ ~IsDigit(s[i]) THEN i - 1 ELSE DigitRunEnd(s, i + 1)

\* the end of the match of  http\S+|www\.\S+|\S+@\S+|@\w+|#\w+  at i, or 0:
\* the alternatives are tried in the order they are written
TopicPatternMatchEnd(s, i) ==
    IF UrlMatchEnd(s, i) > 0 THEN UrlMatchEnd(s, i)
    ELSE IF EmailMatchEnd(s, i) > 0 THEN EmailMatchEnd(s, i)
    ELSE MentionMatchEnd(s, i)

RECURSIVE SubTopicPatterns(_, _)
SubTopicPatterns(s, i) ==
    IF i > Len(s) THEN <<>>
    ELSE IF TopicPatternMatchEnd(s, i) > 0
         THEN SubTopicPatterns(s, TopicPatternMatchEnd(s, i) + 1)
    ELSE <<s[i]>> \o SubTopicPatterns(s, i + 1)

\* the end of the match of  \b\d+\b  at i, or 0: a whole run of digits with
\* no word character on either side
NumberMatchEnd(s, i) ==
    IF /\ i <= Len(s)
       /\ IsDigit(s[i])
       /\ (i = 1 \/ ~IsWordChar(s[i - 1]))
       /\ LET e == DigitRunEnd(s, i)
          IN  e = Len(s) \/ ~IsWordChar(s[e + 1])
    THEN DigitRunEnd(s, i)
    ELSE 0

RECURSIVE SubNumbers(_, _)
SubNumbers(s, i) ==
    IF i > Len(s) THEN <<>>
    ELSE IF NumberMatchEnd(s, i) > 0 THEN SubNumbers(s, NumberMatchEnd(s, i) + 1)
    ELSE <<s[i]>> \o SubNumbers(s, i + 1)

\* s.translate(...): delete string.punctuation except '-' and '_'
StripTopicPunctuation(s) ==
    SelectSeq(s, LAMBDA c : c \notin (Punctuation \ {"-", "_"}))

\* s.split(), reading from position i with the word cur under construction
RECURSIVE SplitFrom(_, _, _)
SplitFrom(s, i, cur) ==
    IF i > Len(s) THEN (IF cur = <<>> THEN <<>> ELSE <<cur>>)
    ELSE IF IsSpace(s[i])
         THEN (IF cur = <<>> THEN <<>> ELSE <<cur>>) \o SplitFrom(s, i + 1, <<>>)
    ELSE SplitFrom(s, i + 1, Append(cur, s[i]))

Split(s) == SplitFrom(s, 1, <<>>)

\* word_tokenize(text) on a text of letters, digits and single blanks: the
\* blank-separated words
word_tokenize(s) == Split(s)

\* ' '.join(tokens)
RECURSIVE JoinTokens(_)
JoinTokens(tokens) ==
    IF Len(tokens) = 0 THEN <<>>
    ELSE IF Len(tokens) = 1 THEN tokens[1]
    ELSE tokens[1] \o <<" ">> \o JoinTokens(Tail(tokens))

\* the tokens that are kept: not a stopword and longer than two characters
KeptToken(token) == token \notin StopWords /\ Len(token) > 2

\* [lemmatize(token) for token in tokens if token not in stop_words and len(token) > 2]
LemmatizeTokens(tokens) ==
    LET kept == SelectSeq(tokens, KeptToken)
    IN  [k \in 1..Len(kept) |-> lemmatize(kept[k])]

\* the body of preprocess_text for a str
PreprocessChars(s) ==
    LET lowered    == Lower(s)
        noPatterns == SubTopicPatterns(lowered, 1)
        noNumbers  == SubNumbers(noPatterns, 1)
        stripped   == StripTopicPunctuation(noNumbers)
        joined     == JoinSplit(stripped, 1)
    IN  JoinTokens(LemmatizeTokens(word_tokenize(joined)))

\* preprocess_text(text): [raised, chars]
preprocess_text(v) ==
    CASE IsNaCondition(v) = "raise" -> [raised |-> TRUE, chars |-> <<>>]
      [] IsNaCondition(v) = "true"  -> [raised |-> FALSE, chars |-> <<>>]
      [] v.kind # "str"             -> [raised |-> FALSE, chars |-> <<>>]
      [] OTHER -> [raised |-> FALSE, chars |-> PreprocessChars(v.chars)]

\* the pieces a text given to preprocess_text is concatenated from
PreprocessPieces ==
    {Dog, Dogs, Product, Products, Ok, <<" ">>, <<",">>, <<"@">>, <<"5">>}

RECURSIVE Flatten(_)
Flatten(pieces) ==
    IF Len(pieces) = 0 THEN <<>> ELSE pieces[1] \o Flatten(Tail(pieces))

PieceTexts(n) == UNION {{Flatten(ps) : ps \in [1..k -> PreprocessPieces]} : k \in 0..n}

\* preprocess_text applied to a text, and again to its own output
InitPreprocess ==
    /\ pc = "preprocess"
    /\ text \in {PyStr(s) : s \in PieceTexts(MaxPieces)} \cup {PyNone, PyNaN, PyInt(123)}
    /\ vader_weight = DefaultVaderWeight
    /\ textblob_weight = DefaultTextblobWeight
    /\ est = EstimatorAnswer(FALSE, FALSE, 0, 0, 0)
    /\ result = NoResult
    /\ cleaned = NoText
    /\ recleaned = NoText
    /\ NoLoop
    /\ NoPipeline
    /\ NoTopics
    /\ NoRun

PreprocessText ==
    /\ pc = "preprocess"
    /\ preprocessed' = preprocess_text(text)
    /\ pc' = "preprocessed"
    /\ UNCHANGED <<callVars, cleanVars, loopVars, pipeVars, repreprocessed,
                   n_topics, cluster_labels, topics, lda_topics, document_topics,
                   runVars>>

PreprocessAgain ==
    /\ pc = "preprocessed"
    /\ repreprocessed' = preprocess_text(PyStr(preprocessed.chars))
    /\ pc' = "repreprocessed"
    /\ UNCHANGED <<callVars, cleanVars, loopVars, pipeVars, preprocessed,
                   n_topics, cluster_labels, topics, lda_topics, document_topics,
                   runVars>>

NextPreprocess == PreprocessText \/ PreprocessAgain

SpecPreprocess == InitPreprocess /\ [][NextPreprocess]_vars

\* C11: preprocess_text(preprocess_text(t)) = preprocess_text(t) for every
\* text t: the lemmatized output survives the same stopword and length
\* filter and the same lemmatization unchanged.
C11_PreprocessTextIdempotent ==
    pc = "repreprocessed" => repreprocessed = preprocessed

----------------------------------------------------------------------------
(* Claims about the removal of email addresses by clean_text *)

\* a text that is one token of the form local@domain: no blank, and an '@'
\* with at least one character on each side
IsEmailToken(v) ==
    /\ v.kind = "str"
    /\ \A k \in 1..Len(v.chars) : ~IsSpace(v.chars[k])
    /\ \E j \in 2..(Len(v.chars) - 1) : v.chars[j] = "@"

\* C12: clean_text removes an email address entirely: of a text that is one
\* token local@domain, no character of the local part or of the domain is
\* left in the output.
C12_EmailRemovedEntirely ==
    (pc = "cleaned" /\ IsEmailToken(text)) => cleaned.chars = <<>>

----------------------------------------------------------------------------
(* extract_topics_kmeans and extract_topics_lda *)

\* most documents given to the topic engine
MaxTopicDocs == 3
\* largest n_topics asked for
MaxTopics == 4

\* min_df, and max_df in hundredths, as TopicExtractor() sets them
DefaultMinDf == 2
DefaultMaxDfPercent == 95
\* the number of top terms kept as the keywords of a topic
TopKeywords == 10

\* bool(text.strip())
HasNonSpace(s) == \E k \in 1..Len(s) : ~IsSpace(s[k])

\* [self.preprocess_text(text) for text in texts]
PreprocessAll(docs) == [k \in 1..Len(docs) |-> preprocess_text(docs[k])]

\* [text for text in cleaned_texts if text.strip()]
CleanedTexts(docs) ==
    LET all == [k \in 1..Len(docs) |-> preprocess_text(docs[k]).chars]
    IN  SelectSeq(all, HasNonSpace)

\* the terms the vectorizer reads in one normalized document with
\* ngram_range (1, 2): its words and its pairs of adjacent words (none of the
\* model's words is shorter than two characters or in scikit-learn's English
\* stop list)
DocTerms(doc) ==
    LET words == Split(doc)
    IN  {words[k] : k \in 1..Len(words)} \cup
        {words[k] \o <<" ">> \o words[k + 1] : k \in 1..(Len(words) - 1)}

DocumentFrequency(term, docs) ==
    Cardinality({k \in 1..Len(docs) : term \in DocTerms(docs[k])})

\* get_feature_names_out(): the terms whose document frequency is at least
\* min_df and at most max_df * len(docs)
Features(docs) ==
    {term \in UNION {DocTerms(docs[k]) : k \in 1..Len(docs)} :
        /\ DocumentFrequency(term, docs) >= DefaultMinDf
        /\ 100 * DocumentFrequency(term, docs) <= DefaultMaxDfPercent * Len(docs)}

\* fit_transform raises ValueError when max_df admits fewer documents than
\* min_df, and when no term is left after the pruning
VectorizerRaises(docs) ==
    \/ DefaultMaxDfPercent * Len(docs) < 100 * DefaultMinDf
    \/ Features(docs) = {}

\* n_clusters without the cap at the number of documents
NClustersUncapped(n, v) == n

\* n_clusters = min(n_topics, len(cleaned_texts))
NClusters(n, v) == Min(n, v)

\* KMeans(n_clusters).fit_predict on v rows raises for n_clusters < 1 and for
\* n_clusters > v
KMeansRaises(k, v) == k < 1 \/ k > v

\* LatentDirichletAllocation(n_components).fit raises for n_components < 1
LdaRaises(n) == n < 1

\* a set as a sequence, in one fixed order
SetToSeq(S) ==
    CHOOSE f \in [1..Cardinality(S) -> S] : {f[k] : k \in 1..Cardinality(S)} = S

\* top_terms: the TopKeywords heaviest terms of a cluster centre.  With no
\* more than TopKeywords features these are all the features, whatever their
\* weights; the order the weights put them in is not modelled.
TopTerms(features) ==
    IF Cardinality(features) <= TopKeywords THEN SetToSeq(features)
    ELSE SetToSeq(CHOOSE T \in SUBSET features : Cardinality(T) = TopKeywords)

\* a cluster size that counts the documents of the lower clusters too
ClusterSizeCumulative(labels, cluster_id) ==
    Cardinality({d \in 1..Len(labels) : labels[d] <= cluster_id})

\* np.sum(cluster_labels == cluster_id)
ClusterSize(labels, cluster_id) ==
    Cardinality({d \in 1..Len(labels) : labels[d] = cluster_id})

\* the topic appended for one cluster (topic_name, the scores and the centre
\* are left out)
ClusterTopic(cluster_id, features, labels) ==
    [topic_id |-> cluster_id,
     keywords |-> TopTerms(features),
     document_count |-> ClusterSize(labels, cluster_id)]

\* position of entry i after a stable sort by document_count with the equal
\* counts in reverse order
CountRankTiesReversed(list, i) ==
    1 + Cardinality({j \in 1..Len(list) :
            \/ list[j].document_count > list[i].document_count
            \/ list[j].document_count = list[i].document_count /\ j > i})

\* position of entry i after list.sort(key=document_count, reverse=True):
\* the sort is stable, entries of equal count keep their order
CountRank(list, i) ==
    1 + Cardinality({j \in 1..Len(list) :
            \/ list[j].document_count > list[i].document_count
            \/ list[j].document_count = list[i].document_count /\ j < i})

\* topics.sort(key=lambda x: x['document_count'], reverse=True)
SortByDocumentCount(list) ==
    [p \in 1..Len(list) |-> list[CHOOSE i \in 1..Len(list) : CountRank(list, i) = p]]

\* what an exception in the try block would give if it were not caught
PropagatedResult(fits, runs) == ExtractionResult(TRUE, TRUE, <<>>, fits, runs)

\* except Exception: log the error and return []
CaughtResult(fits, runs) == ExtractionResult(FALSE, TRUE, <<>>, fits, runs)

\* a second guard that lets every corpus through
InsufficientTextsNever(cleaned_texts) == FALSE

\* if len(cleaned_texts) < 2
InsufficientTexts(cleaned_texts) == Len(cleaned_texts) < 2

\* extract_topics_kmeans(texts, n_topics), where labels is what
\* KMeans.fit_predict answers
extract_topics_kmeans(docs, n, labels) ==
    IF Len(docs) < 2 THEN NoExtraction
    ELSE IF \E k \in 1..Len(docs) : PreprocessAll(docs)[k].raised
         THEN ExtractionResult(TRUE, FALSE, <<>>, 0, 0)
    ELSE LET cleaned_texts == CleanedTexts(docs)
             n_clusters    == NClusters(n, Len(cleaned_texts))
         IN  IF InsufficientTexts(cleaned_texts) THEN NoExtraction
             ELSE IF VectorizerRaises(cleaned_texts) THEN CaughtResult(1, 0)
             ELSE IF KMeansRaises(n_clusters, Len(cleaned_texts)) THEN CaughtResult(1, 1)
             ELSE ExtractionResult(FALSE, FALSE,
                      SortByDocumentCount(
                          [c \in 1..n_clusters |->
                              ClusterTopic(c - 1, Features(cleaned_texts), labels)]),
                      1, 1)

\* extract_topics_lda(texts, n_topics): one topic per component, in the
\* order of the components
extract_topics_lda(docs, n) ==
    IF Len(docs) < 2 THEN NoExtraction
    ELSE IF \E k \in 1..Len(docs) : PreprocessAll(docs)[k].raised
         THEN ExtractionResult(TRUE, FALSE, <<>>, 0, 0)
    ELSE LET cleaned_texts == CleanedTexts(docs)
         IN  IF InsufficientTexts(cleaned_texts) THEN NoExtraction
             ELSE IF VectorizerRaises(cleaned_texts) THEN CaughtResult(1, 0)
             ELSE IF LdaRaises(n) THEN CaughtResult(1, 1)
             ELSE ExtractionResult(FALSE, FALSE,
                      [c \in 1..n |->
                          [topic_id |-> c - 1,
                           keywords |-> TopTerms(Features(cleaned_texts))]],
                      1, 1)

\* the answers KMeans.fit_predict can give to the call: a cluster index for
\* each valid document when the call gets as far as the clustering, and
\* nothing otherwise
KMeansAnswers(docs, n) ==
    IF extract_topics_kmeans(docs, n, <<>>).cluster_calls = 1
       /\ ~extract_topics_kmeans(docs, n, <<>>).failed
    THEN [1..Len(CleanedTexts(docs)) ->
             0..(NClusters(n, Len(CleanedTexts(docs))) - 1)]
    ELSE {<<>>}

----------------------------------------------------------------------------
(* _calculate_topic_relevance and assign_topics_to_documents *)

\* Relevance scores count units of 1/RelevanceUnit, which every keyword
\* count up to TopKeywords and the divisor of the length bonus divide.
RelevanceUnit == (5 * 7 * 8 * 9) * 50
\* the divisor of the length bonus: len(text_words) / 50
LengthBonusDivisor == 50
\* the cap 0.2 of the length bonus
MaxLengthBonus == RelevanceUnit \div 5
\* the floor 0.1 of the relevance of an assignment
MinimumRelevance == RelevanceUnit \div 10
\* topics kept per document
AssignmentCap == 3

\* set(text.lower().split())
TextWords(chars) ==
    LET words == Split(Lower(chars))
    IN  {words[k] : k \in 1..Len(words)}

\* sum(1 for keyword in keywords if keyword.lower() in text_words)
KeywordMatches(chars, keywords) ==
    Cardinality({k \in 1..Len(keywords) : Lower(keywords[k]) \in TextWords(chars)})

\* _calculate_topic_relevance(text, keywords), for at most TopKeywords
\* keywords
calculate_topic_relevance(chars, keywords) ==
    IF Len(chars) = 0 \/ Len(keywords) = 0 THEN 0
    ELSE LET relevance    == KeywordMatches(chars, keywords) * (RelevanceUnit \div Len(keywords))
             length_bonus == Min(Cardinality(TextWords(chars)) * (RelevanceUnit \div LengthBonusDivisor),
                                 MaxLengthBonus)
         IN  Min(relevance + length_bonus, RelevanceUnit)

\* _get_matching_keywords(text, keywords)
get_matching_keywords(chars, keywords) ==
    SelectSeq(keywords, LAMBDA keyword : Lower(keyword) \in TextWords(chars))

\* the candidate assignments of one document, in the order of the topic
\* list: one for each topic whose relevance is above the floor (topic_name
\* is left out)
DocTopicScores(doc_idx, chars, topic_list) ==
    LET all == [t \in 1..Len(topic_list) |->
                   [document_id |-> doc_idx,
                    topic_id |-> topic_list[t].topic_id,
                    relevance_score |-> calculate_topic_relevance(chars, topic_list[t].keywords),
                    keywords_found |-> get_matching_keywords(chars, topic_list[t].keywords)]]
    IN  SelectSeq(all, LAMBDA a : a.relevance_score > MinimumRelevance)

\* position of entry i after list.sort(key=relevance_score, reverse=True):
\* the sort is stable, entries of equal relevance keep their order
RelevanceRank(list, i) ==
    1 + Cardinality({j \in 1..Len(list) :
            \/ list[j].relevance_score > list[i].relevance_score
            \/ list[j].relevance_score = list[i].relevance_score /\ j < i})

\* doc_topic_scores.sort(key=lambda x: x['relevance_score'], reverse=True)
SortByRelevance(list) ==
    [p \in 1..Len(list) |-> list[CHOOSE i \in 1..Len(list) : RelevanceRank(list, i) = p]]

\* a slice that keeps every entry
KeepAll(list) == list

\* doc_topic_scores[:3]
KeepTop(list) == SubSeq(list, 1, Min(AssignmentCap, Len(list)))

\* the documents that get assignments: a truthy text whose normalisation
\* is not empty
IsAssignable(v) == Truthy(v) /\ Len(preprocess_text(v).chars) > 0

\* the loop over the documents from position k on
RECURSIVE AssignFrom(_, _, _)
AssignFrom(docs, k, topic_list) ==
    IF k > Len(docs) THEN <<>>
    ELSE IF ~IsAssignable(docs[k]) THEN AssignFrom(docs, k + 1, topic_list)
    ELSE KeepTop(SortByRelevance(
             DocTopicScores(k - 1, preprocess_text(docs[k]).chars, topic_list)))
         \o AssignFrom(docs, k + 1, topic_list)

\* assign_topics_to_documents(texts, topics): [raised, list]
assign_topics_to_documents(docs, topic_list) ==
    IF Len(docs) = 0 \/ Len(topic_list) = 0 THEN [raised |-> FALSE, list |-> <<>>]
    ELSE IF \E k \in 1..Len(docs) : Truthy(docs[k]) /\ preprocess_text(docs[k]).raised
         THEN [raised |-> TRUE, list |-> <<>>]
    ELSE [raised |-> FALSE, list |-> AssignFrom(docs, 1, topic_list)]

----------------------------------------------------------------------------
(* The topic engine on one corpus: extract_topics_kmeans, extract_topics_lda *)
(* and assign_topics_to_documents with the topics of the first              *)

\* 'dogs cat' and 'dog dog'
DogsCat == Dogs \o <<" ">> \o Cat
DogDog == Dog \o <<" ">> \o Dog

\* the documents of a corpus: missing, blank, a stopword only, two texts
\* with a shared word, and a list in place of a text
TopicDocs ==
    {PyNone, PyStr(<<" ">>), PyStr(Product), PyStr(Dog), PyStr(DogsCat), PyList(2)}

InitTopics ==
    /\ pc = "topics_call"
    /\ \E n \in 0..MaxTopicDocs : texts \in [1..n -> TopicDocs]
    /\ n_topics \in 0..MaxTopics
    /\ cluster_labels \in KMeansAnswers(texts, n_topics)
    /\ topics = NoExtraction
    /\ lda_topics = NoExtraction
    /\ document_topics = NoTopicList
    /\ preprocessed = NoText
    /\ repreprocessed = NoText
    /\ answers = <<>>
    /\ batch_size = 0
    /\ loop_i = 0
    /\ loop_idx = 0
    /\ results = <<>>
    /\ vader_weight = DefaultVaderWeight
    /\ textblob_weight = DefaultTextblobWeight
    /\ NoCall
    /\ NoPipeline
    /\ NoRun

ExtractTopicsKMeans ==
    /\ pc = "topics_call"
    /\ topics' = extract_topics_kmeans(texts, n_topics, cluster_labels)
    /\ pc' = "kmeans_returned"
    /\ UNCHANGED <<callVars, cleanVars, loopVars, pipeVars, preprocessed,
                   repreprocessed, n_topics, cluster_labels, lda_topics, document_topics,
                   runVars>>

ExtractTopicsLda ==
    /\ pc = "kmeans_returned"
    /\ lda_topics' = extract_topics_lda(texts, n_topics)
    /\ pc' = "assign_call"
    /\ UNCHANGED <<callVars, cleanVars, loopVars, pipeVars, preprocessed,
                   repreprocessed, n_topics, cluster_labels, topics, document_topics,
                   runVars>>

AssignTopics ==
    /\ pc = "assign_call"
    /\ document_topics' = assign_topics_to_documents(texts, topics.list)
    /\ pc' = "assigned"
    /\ UNCHANGED <<callVars, cleanVars, loopVars, pipeVars, preprocessed,
                   repreprocessed, n_topics, cluster_labels, topics, lda_topics,
                   runVars>>

NextTopics == ExtractTopicsKMeans \/ ExtractTopicsLda \/ AssignTopics

SpecTopics == InitTopics /\ [][NextTopics]_vars

----------------------------------------------------------------------------
(* Claims about extract_topics_kmeans and extract_topics_lda *)

\* the normalisation of every document of the corpus returns
NoEntryRaises == \A k \in 1..Len(texts) : ~preprocess_text(texts[k]).raised

\* V: the documents that are not empty after the normalisation
ValidCount == Len(CleanedTexts(texts))

KMeansReturned == pc = "kmeans_returned" /\ ~topics.raised

\* C13: with fewer than 2 texts, or fewer than 2 texts left non-empty by the
\* normalisation (entries that are None, blank or stopwords only),
\* extract_topics_kmeans returns the empty list without raising, as
\* insufficient data: neither the vectorizer nor the clustering is run and
\* no exception is caught.
C13_TooFewTextsEmptyList ==
    (/\ pc = "kmeans_returned"
     /\ \/ Len(texts) < 2
        \/ NoEntryRaises /\ ValidCount < 2)
    => topics = NoExtraction

\* the corpus [None, ' ', 'product'] came back with no topic
C13_Witness ==
    /\ pc = "kmeans_returned"
    /\ texts = <<PyNone, PyStr(<<" ">>), PyStr(Product)>>
    /\ n_topics = 2
    /\ topics = NoExtraction

TopicIds(list) == {list[p].topic_id : p \in 1..Len(list)}

RECURSIVE SumDocumentCounts(_)
SumDocumentCounts(list) ==
    IF Len(list) = 0 THEN 0
    ELSE list[1].document_count + SumDocumentCounts(Tail(list))

ClusteringSucceeded == KMeansReturned /\ ~topics.failed /\ topics.cluster_calls = 1

\* C14: when the clustering succeeds on V >= 2 valid documents, the call
\* returns exactly k = min(n_topics, V) topics, their topic_id values are
\* 0..k-1 each once, and their document_count values sum to V.
C14_PartitionIntoMinClusters ==
    ClusteringSucceeded =>
        /\ ValidCount >= 2
        /\ Len(topics.list) = Min(n_topics, ValidCount)
        /\ Len(topics.list) <= n_topics
        /\ Len(topics.list) <= ValidCount
        /\ TopicIds(topics.list) = 0..(Len(topics.list) - 1)
        /\ SumDocumentCounts(topics.list) = ValidCount
        /\ \A p \in 1..Len(topics.list) :
              topics.list[p].document_count =
                  ClusterSize(cluster_labels, topics.list[p].topic_id)

\* three valid documents in two clusters, of two documents and of one
C14_Witness ==
    /\ ClusteringSucceeded
    /\ ValidCount = 3
    /\ n_topics = 2
    /\ Len(topics.list) = 2
    /\ topics.list[1].document_count = 2
    /\ topics.list[2].document_count = 1

\* C15, as stated: asking for more topics than there are valid documents
\* returns the empty list and does not raise.
C15_MoreTopicsThanDocsEmptyList ==
    (KMeansReturned /\ NoEntryRaises /\ n_topics > ValidCount)
    => topics.list = <<>>

\* C15, amended: asking for more topics than there are valid documents is
\* not by itself insufficient data: when V >= 2 and the vectorizer keeps at
\* least one term, the number of clusters is capped at V and the call
\* returns exactly V topics without raising and without catching an
\* exception.
C15_MoreTopicsThanDocsCapped ==
    (/\ pc = "kmeans_returned"
     /\ NoEntryRaises
     /\ ValidCount >= 2
     /\ ~VectorizerRaises(CleanedTexts(texts))
     /\ n_topics > ValidCount)
    => /\ ~topics.raised
       /\ ~topics.failed
       /\ Len(topics.list) = ValidCount

\* four topics asked of three valid documents, three returned
C15_Witness ==
    /\ pc = "kmeans_returned"
    /\ ValidCount = 3
    /\ n_topics = 4
    /\ Len(topics.list) = 3

\* C16: the returned list is in descending order of document_count, and
\* topics of equal document_count are in ascending order of topic_id.
C16_SortedByCountThenId ==
    KMeansReturned =>
        \A p, q \in 1..Len(topics.list) :
            p < q =>
                \/ topics.list[p].document_count > topics.list[q].document_count
                \/ /\ topics.list[p].document_count = topics.list[q].document_count
                   /\ topics.list[p].topic_id < topics.list[q].topic_id

\* three clusters with all documents in the last: it comes first, and the
\* two empty clusters follow in the order of their indices
C16_Witness ==
    /\ KMeansReturned
    /\ Len(topics.list) = 3
    /\ topics.list[1].topic_id = 2
    /\ topics.list[1].document_count = 3
    /\ topics.list[2].topic_id = 0
    /\ topics.list[3].topic_id = 1
    /\ topics.list[2].document_count = topics.list[3].document_count

\* C17: an exception raised by the vectorizer or by the clustering is
\* caught: the call returns the empty list, nothing propagates, and neither
\* step is run a second time; for extract_topics_kmeans and for
\* extract_topics_lda.
C17_ExtractionFailureGivesEmptyList ==
    /\ (pc \in {"kmeans_returned", "assign_call", "assigned"} /\ topics.failed) =>
          /\ ~topics.raised
          /\ topics.list = <<>>
          /\ topics.fit_calls = 1
          /\ topics.cluster_calls <= 1
    /\ (pc \in {"assign_call", "assigned"} /\ lda_topics.failed) =>
          /\ ~lda_topics.raised
          /\ lda_topics.list = <<>>
          /\ lda_topics.fit_calls = 1
          /\ lda_topics.cluster_calls <= 1
    /\ (pc \in {"assign_call", "assigned"} /\ NoEntryRaises /\ ValidCount >= 2) =>
          /\ topics.failed =
                (\/ VectorizerRaises(CleanedTexts(texts))
                 \/ KMeansRaises(NClusters(n_topics, ValidCount), ValidCount))
          /\ lda_topics.failed =
                (VectorizerRaises(CleanedTexts(texts)) \/ LdaRaises(n_topics))

\* both calls reached the clustering with n_topics = 0 and caught its
\* exception
C17_Witness ==
    /\ pc = "assign_call"
    /\ n_topics = 0
    /\ topics.failed /\ topics.cluster_calls = 1 /\ topics.list = <<>>
    /\ lda_topics.failed /\ lda_topics.cluster_calls = 1 /\ lda_topics.list = <<>>

----------------------------------------------------------------------------
(* assign_topics_to_documents on any texts and topics *)

\* most documents and most topics given to assign_topics_to_documents
MaxAssignDocs == 2
MaxAssignTopics == 4

\* documents: missing, one word, one word twice, and a list in place of a
\* text
AssignDocs == {PyNone, PyStr(Dog), PyStr(DogDog), PyList(2)}

\* keyword lists of the topics
KeywordSamples == {<<>>, <<Dog>>, <<Cat>>, <<Dog, Cat>>}

\* a topic list in the order of its topic ids, as a caller builds it
TopicListOf(kws) == [p \in 1..Len(kws) |-> [topic_id |-> p - 1, keywords |-> kws[p]]]

\* a document of six distinct words, none of them a stopword or a plural
Cow == <<"c", "o", "w">>
Duck == <<"d", "u", "c", "k">>
Goat == <<"g", "o", "a", "t">>
Hawk == <<"h", "a", "w", "k">>
Toad == <<"t", "o", "a", "d">>
SixWords ==
    Dog \o <<" ">> \o Cow \o <<" ">> \o Duck \o <<" ">> \o Goat \o <<" ">>
        \o Hawk \o <<" ">> \o Toad

InitAssign ==
    /\ pc = "assign_call"
    /\ \/ \E n \in 0..MaxAssignDocs : texts \in [1..n -> AssignDocs]
       \/ texts = <<PyStr(SixWords)>>
    /\ \E m \in 0..MaxAssignTopics :
          \E kws \in [1..m -> KeywordSamples] :
              topics = ExtractionResult(FALSE, FALSE, TopicListOf(kws), 1, 1)
    /\ n_topics = Len(topics.list)
    /\ cluster_labels = <<>>
    /\ lda_topics = NoExtraction
    /\ document_topics = NoTopicList
    /\ preprocessed = NoText
    /\ repreprocessed = NoText
    /\ answers = <<>>
    /\ batch_size = 0
    /\ loop_i = 0
    /\ loop_idx = 0
    /\ results = <<>>
    /\ vader_weight = DefaultVaderWeight
    /\ textblob_weight = DefaultTextblobWeight
    /\ NoCall
    /\ NoPipeline
    /\ NoRun

NextAssign == AssignTopics

SpecAssign == InitAssign /\ [][NextAssign]_vars

----------------------------------------------------------------------------
(* Claims about the relevance and the assignments *)

Assigned == pc = "assigned" /\ ~document_topics.raised

\* the normalized text of document d (0-based)
NormalizedDoc(d) == preprocess_text(texts[d + 1]).chars

\* the number of words of a normalized document
DocumentWordCount(chars) == Len(Split(chars))

\* the relevance as the claim states it: matching keywords over keywords,
\* plus min(document_word_count / 50, 0.2), capped at 1.0
StatedRelevance(chars, keywords) ==
    Min(KeywordMatches(chars, keywords) * (RelevanceUnit \div Len(keywords))
          + Min(DocumentWordCount(chars) * (RelevanceUnit \div LengthBonusDivisor),
                MaxLengthBonus),
        RelevanceUnit)

\* the position in the topic list of the topic of an assignment
TopicPositions(a) == {t \in 1..Len(topics.list) : topics.list[t].topic_id = a.topic_id}

\* C18: the relevance of every assignment is
\* min(matching keywords / keywords + min(document_word_count / 50, 0.2), 1.0),
\* document_word_count being the number of words of the normalized
\* document, and lies in [0, 1].
C18_RelevanceFormula ==
    Assigned =>
        \A p \in 1..Len(document_topics.list) :
            LET a == document_topics.list[p]
            IN  /\ a.relevance_score >= 0
                /\ a.relevance_score <= RelevanceUnit
                /\ \A t \in TopicPositions(a) :
                      a.relevance_score =
                          StatedRelevance(NormalizedDoc(a.document_id),
                                          topics.list[t].keywords)

\* the assignments returned for document d, as positions of the output
AssignmentsOf(d) ==
    {p \in 1..Len(document_topics.list) : document_topics.list[p].document_id = d}

\* the topics that are candidates for document d, as positions of the topic
\* list
CandidatesOf(d) ==
    IF ~IsAssignable(texts[d + 1]) THEN {}
    ELSE {t \in 1..Len(topics.list) :
            calculate_topic_relevance(NormalizedDoc(d), topics.list[t].keywords)
                > MinimumRelevance}

\* C19: at most 3 assignments per document, each of relevance above 0.1 and
\* at most 1.0; the assignments of one document are contiguous and their
\* relevance does not increase with the position; they are as many as the
\* candidates allow, and no candidate that was dropped is more relevant than
\* one that was kept.
C19_TopThreePerDocument ==
    Assigned =>
        LET L == document_topics.list
        IN  /\ \A p \in 1..Len(L) :
                  /\ L[p].document_id \in 0..(Len(texts) - 1)
                  /\ L[p].relevance_score > MinimumRelevance
                  /\ L[p].relevance_score <= RelevanceUnit
            /\ \A p, q \in 1..Len(L) :
                  (p < q /\ L[p].document_id = L[q].document_id) =>
                      /\ L[p].relevance_score >= L[q].relevance_score
                      /\ \A r \in p..q : L[r].document_id = L[p].document_id
            /\ \A d \in 0..(Len(texts) - 1) :
                  /\ Cardinality(AssignmentsOf(d)) <= AssignmentCap
                  /\ Len(topics.list) > 0 =>
                        Cardinality(AssignmentsOf(d)) =
                            Min(AssignmentCap, Cardinality(CandidatesOf(d)))
                  /\ \A t \in CandidatesOf(d), p \in AssignmentsOf(d) :
                        calculate_topic_relevance(NormalizedDoc(d), topics.list[t].keywords)
                            > L[p].relevance_score
                        => \E q \in AssignmentsOf(d) :
                              L[q].topic_id = topics.list[t].topic_id

\* four candidate topics for the document 'dog', two of relevance 1.0 and
\* two of relevance 0.52: the cap cuts the last
C19_Witness ==
    /\ Assigned
    /\ texts = <<PyStr(Dog)>>
    /\ Cardinality(CandidatesOf(0)) = 4
    /\ Len(document_topics.list) = AssignmentCap
    /\ document_topics.list[1].topic_id = 1
    /\ document_topics.list[2].topic_id = 3
    /\ document_topics.list[3].topic_id = 0
    /\ document_topics.list[2].relevance_score > document_topics.list[3].relevance_score

\* C20: of two assignments of one document with equal relevance, the one
\* whose topic has the lower topic_id comes first, for the topic lists that
\* extract_topics_kmeans returns.
C20_TiesByTopicId ==
    Assigned =>
        \A p, q \in 1..Len(document_topics.list) :
            (/\ p < q
             /\ document_topics.list[p].document_id = document_topics.list[q].document_id
             /\ document_topics.list[p].relevance_score = document_topics.list[q].relevance_score)
            => document_topics.list[p].topic_id < document_topics.list[q].topic_id

----------------------------------------------------------------------------
(* generate_topic_summary *)

\* average_relevance is kept in thousandths, percentage_of_docs in tenths of
\* a percent, average_topics_per_document in hundredths
AverageUnit == 10 * 100
PercentUnit == 2 * 5
PerDocumentUnit == 10 * 10

\* topic['keywords'][:5]
SummaryKeywords == 5

RECURSIVE SumSeq(_)
SumSeq(s) == IF s = <<>> THEN 0 ELSE Head(s) + SumSeq(Tail(s))

\* set(dt['document_id'] for dt in document_topics)
DistinctDocuments(dts) == {dts[p].document_id : p \in 1..Len(dts)}

\* Counter(dt['topic_id'] for dt in document_topics).get(topic_id, 0): the
\* number of assignment rows that carry the topic id
TopicDocCount(dts, topic_id) ==
    Cardinality({p \in 1..Len(dts) : dts[p].topic_id = topic_id})

RelevancesOfDefaultOne(dts, topic_id) ==
    LET own == SelectSeq(dts, LAMBDA dt : dt.topic_id = topic_id)
    IN  IF own = <<>> THEN <<RelevanceUnit>>
        ELSE [p \in 1..Len(own) |-> own[p].relevance_score]

\* topic_relevances.get(topic_id, [0])
RelevancesOf(dts, topic_id) ==
    LET own == SelectSeq(dts, LAMBDA dt : dt.topic_id = topic_id)
    IN  IF own = <<>> THEN <<0>>
        ELSE [p \in 1..Len(own) |-> own[p].relevance_score]

\* round(np.mean(relevances), 3), in thousandths
AverageRelevance(dts, topic_id) ==
    LET rel == RelevancesOf(dts, topic_id)
    IN  RoundHalfEven(SumSeq(rel) * AverageUnit, Len(rel) * RelevanceUnit)

\* round(doc_count / len(set(document ids)) * 100, 1) if document_topics
\* else 0, in tenths of a percent
PercentageOfDocs(dts, doc_count) ==
    IF dts = <<>> THEN 0
    ELSE RoundHalfEven(doc_count * 100 * PercentUnit,
                       Cardinality(DistinctDocuments(dts)))

\* one entry of topics_summary
TopicSummaryEntry(topic, dts) ==
    LET doc_count == TopicDocCount(dts, topic.topic_id)
    IN  [topic_id |-> topic.topic_id,
         keywords |-> SubSeq(topic.keywords, 1, Min(SummaryKeywords, Len(topic.keywords))),
         document_count |-> doc_count,
         average_relevance |-> AverageRelevance(dts, topic.topic_id),
         percentage_of_docs |-> PercentageOfDocs(dts, doc_count)]

\* round(len(document_topics) / len(set(document ids)), 2) if
\* document_topics else 0, in hundredths
AverageTopicsPerDocument(dts) ==
    IF dts = <<>> THEN 0
    ELSE RoundHalfEven(Len(dts) * PerDocumentUnit,
                       Cardinality(DistinctDocuments(dts)))

\* the summary of no topics has two keys only
EmptySummary == [total_topics |-> 0, topics_summary |-> <<>>]

generate_topic_summary(topic_list, dts) ==
    IF topic_list = <<>> THEN EmptySummary
    ELSE [total_topics |-> Len(topic_list),
          total_documents_analyzed |-> Cardinality(DistinctDocuments(dts)),
          average_topics_per_document |-> AverageTopicsPerDocument(dts),
          topics_summary |->
              SortByDocumentCount([t \in 1..Len(topic_list) |->
                                      TopicSummaryEntry(topic_list[t], dts)])]

\* most topics and most assignment rows given to generate_topic_summary
MaxSummaryTopics == 2
MaxSummaryRows == 3

\* topic ids, document ids and relevance scores of the rows
SummaryTopicIds == {0, 1}
SummaryDocumentIds == {0, 1}
SummaryRelevances == {RelevanceUnit \div 2, RelevanceUnit}

SummaryRows ==
    [document_id : SummaryDocumentIds, topic_id : SummaryTopicIds,
     relevance_score : SummaryRelevances, keywords_found : {<<Dog>>}]

InitSummary ==
    /\ pc = "summary_call"
    /\ \E m \in 0..MaxSummaryTopics :
          \E ids \in [1..m -> SummaryTopicIds] :
              topics = ExtractionResult(FALSE, FALSE,
                          [p \in 1..m |-> [topic_id |-> ids[p], keywords |-> <<Dog>>]], 1, 1)
    /\ \E n \in 0..MaxSummaryRows :
          \E rows \in [1..n -> SummaryRows] :
              document_topics = [raised |-> FALSE, list |-> rows]
    /\ summary = NoSummary
    /\ NoDatabase
    /\ n_topics = Len(topics.list)
    /\ cluster_labels = <<>>
    /\ lda_topics = NoExtraction
    /\ preprocessed = NoText
    /\ repreprocessed = NoText
    /\ vader_weight = DefaultVaderWeight
    /\ textblob_weight = DefaultTextblobWeight
    /\ NoCall
    /\ NoLoop
    /\ NoPipeline

GenerateTopicSummary ==
    /\ pc = "summary_call"
    /\ summary' = generate_topic_summary(topics.list, document_topics.list)
    /\ pc' = "summarized"
    /\ UNCHANGED <<callVars, cleanVars, loopVars, pipeVars, topicVars, arrived,
                   sentiment_analysis, topic_analysis, run, faults>>

NextSummary == GenerateTopicSummary

SpecSummary == InitSummary /\ [][NextSummary]_vars

----------------------------------------------------------------------------
(* Claims about the summary *)

Summarized == pc = "summarized"

\* the documents that have an assignment to the topic id
DocumentsAssignedTo(topic_id) ==
    {document_topics.list[p].document_id :
        p \in {q \in 1..Len(document_topics.list) :
                  document_topics.list[q].topic_id = topic_id}}

\* C21: every topic's document_count is the number of distinct documents
\* assigned to it, so it never exceeds total_documents_analyzed and
\* percentage_of_docs never exceeds 100, for any topic list and any
\* assignment list
C21_DocumentCountIsDistinctDocuments ==
    (Summarized /\ topics.list # <<>>) =>
        \A p \in 1..Len(summary.topics_summary) :
            LET e == summary.topics_summary[p]
            IN  /\ e.document_count = Cardinality(DocumentsAssignedTo(e.topic_id))
                /\ e.document_count <= summary.total_documents_analyzed
                /\ e.percentage_of_docs <= 100 * PercentUnit

\* C22: no topics give exactly {total_topics: 0, topics_summary: []}
\* whatever the assignments are; topics with no assignments give
\* total_topics = number of topics, no documents analyzed, and zero count,
\* average relevance and percentage for every topic
C22_EmptyInputsSummarized ==
    Summarized =>
        /\ topics.list = <<>> => summary = EmptySummary
        /\ (topics.list # <<>> /\ document_topics.list = <<>>) =>
              /\ summary.total_topics = Len(topics.list)
              /\ summary.total_documents_analyzed = 0
              /\ summary.average_topics_per_document = 0
              /\ Len(summary.topics_summary) = Len(topics.list)
              /\ \A p \in 1..Len(summary.topics_summary) :
                    /\ summary.topics_summary[p].document_count = 0
                    /\ summary.topics_summary[p].average_relevance = 0
                    /\ summary.topics_summary[p].percentage_of_docs = 0

\* both cases happen: no topics with assignments given, and topics with no
\* assignments
C22_Witness ==
    /\ Summarized
    /\ \/ topics.list = <<>> /\ document_topics.list # <<>>
       \/ Len(topics.list) = MaxSummaryTopics /\ document_topics.list = <<>>

----------------------------------------------------------------------------
(* Claim about the sub-batch size *)

\* what analyze_batch returns with the default batch_size: one record per
\* text, in input order
DefaultBatchRecords ==
    [k \in 1..Len(texts) |-> DocumentRecord(texts[k], answers[k], k - 1)]

\* C23: batch_size affects logging only: for every texts list and every
\* batch_size a caller can supply, analyze_batch terminates without raising
\* and returns the same records in the same order as with the default
C23_BatchSizeAffectsLoggingOnly ==
    /\ pc # "batch_raised"
    /\ pc = "batch_returned" => results = DefaultBatchRecords

----------------------------------------------------------------------------
(* Claim about the configured weights *)

\* C24: every sentiment record of the pipeline has a combined score in
\* [-1, 1], for every weight configuration that validate_config accepts
\* (the component scores being in [-1, 1])
C24_PipelineScoreInRange ==
    \A k \in 1..Len(results) :
        /\ -RoundUnit <= results[k].sentiment_score
        /\ results[k].sentiment_score <= RoundUnit

----------------------------------------------------------------------------
(* Claims about the keywords of an assignment *)

\* C25: every assignment names at least one matching keyword: the length
\* bonus alone never lifts a pair without a match over the 0.1 floor
C25_KeywordsFoundNonEmpty ==
    Assigned =>
        \A p \in 1..Len(document_topics.list) :
            document_topics.list[p].keywords_found # <<>>

\* the keywords of a topic that occur in a normalized text, as single words
\* or as two adjacent words
OccurringKeywords(chars, keywords) ==
    {k \in 1..Len(keywords) : keywords[k] \in DocTerms(chars)}

\* C26: every keyword the extraction produces, two-word keywords included,
\* is matchable in the assignment: a keyword that occurs in the document's
\* normalized text is counted by _calculate_topic_relevance and listed by
\* _get_matching_keywords
C26_ExtractedKeywordsMatchable ==
    Assigned =>
        \A p \in 1..Len(document_topics.list) :
            LET a == document_topics.list[p]
                doc == NormalizedDoc(a.document_id)
            IN  \A t \in TopicPositions(a) :
                    LET kws == topics.list[t].keywords
                        occurring == OccurringKeywords(doc, kws)
                    IN  /\ \A k \in occurring :
                              \E f \in 1..Len(a.keywords_found) :
                                  a.keywords_found[f] = kws[k]
                        /\ a.relevance_score >=
                              Min(Cardinality(occurring) * (RelevanceUnit \div Len(kws)),
                                  RelevanceUnit)

----------------------------------------------------------------------------
(* Claim about the stopwords *)

\* C27: the output of preprocess_text never contains a stopword, also when
\* a token only becomes a stopword by being lemmatized
C27_NoStopwordInOutput ==
    (pc = "preprocessed" /\ ~preprocessed.raised) =>
        \A k \in 1..Len(Split(preprocessed.chars)) :
            Split(preprocessed.chars)[k] \notin StopWords

----------------------------------------------------------------------------
(* FeedbackAnalysisPipeline.process_new_feedback over the database *)

\* estimator and database failures allowed in one behaviour
MaxFaults == 1

\* config['processing']['batch_size'] and config['topic_extraction']['n_topics']
\* when the configuration leaves them out
DefaultProcessingBatchSize == 1000
DefaultNTopics == 10

\* feedback_text of the rows, by feedback_id (ids follow created_date)
FeedbackText(f) == IF f = 1 THEN Dog ELSE IF f = 2 THEN DogsCat ELSE Cat

\* the feedback ids of a set in the order of created_date
ByCreatedDate(S) ==
    CHOOSE df \in [1..Cardinality(S) -> S] :
        \A j, k \in 1..Cardinality(S) : j < k => df[j] < df[k]

\* get_unprocessed_feedback(limit): the first `limit` rows of feedback, by
\* created_date, that have no row in sentiment_analysis
UnprocessedFeedback(limit) ==
    LET ids == ByCreatedDate({f \in 1..arrived : sentiment_analysis[f] = 0})
    IN  SubSeq(ids, 1, Min(limit, Len(ids)))

\* the frames get_unprocessed_feedback can answer
Frames == {ByCreatedDate(S) : S \in SUBSET (1..MaxFeedback)}

\* feedback_df['feedback_text'].fillna('').tolist()
FrameTexts(df) == [k \in 1..Len(df) |-> PyStr(FeedbackText(df[k]))]

\* the rows of `rows` (a list of feedback ids) added to a table
Inserted(table, rows) ==
    [f \in 1..MaxFeedback |->
        table[f] + Cardinality({k \in 1..Len(rows) : rows[k] = f})]

\* run_topic_extraction: the feedback ids of the rows of its frame, one per
\* assignment
TopicRows(df, dts) == [p \in 1..Len(dts) |-> df[dts[p].document_id + 1]]

\* ((sentiment_analyzed + topics_extracted) / (2 * feedback_processed)) * 100
\* if feedback_processed > 0 else 0, in hundredths of a percent
SuccessRate(st) ==
    IF st.feedback_processed > 0
    THEN RoundHalfEven((st.sentiment_analyzed + st.topics_extracted) * 100 * 100,
                       2 * st.feedback_processed)
    ELSE 0

\* a new row of feedback is stored
AddFeedback ==
    /\ arrived < MaxFeedback
    /\ arrived' = arrived + 1
    /\ UNCHANGED <<pc, callVars, cleanVars, loopVars, pipeVars, topicVars, summary,
                   sentiment_analysis, topic_analysis, run, faults>>

\* run_full_pipeline is called: the scheduler builds a new pipeline for each
\* run, the API keeps one and its statistics
BeginRun(r) ==
    /\ run[r].pc = "idle"
    /\ run' = [run EXCEPT ![r] =
                  [pc |-> "select", feedback_df |-> <<>>,
                   stats |-> IF r = "scheduled" THEN FreshStats ELSE @.stats,
                   returned |-> "none"]]
    /\ UNCHANGED <<pc, callVars, cleanVars, loopVars, pipeVars, topicVars, summary,
                   arrived, sentiment_analysis, topic_analysis, faults>>

\* process_new_feedback up to `self.stats['feedback_processed'] = ...`: the
\* query raises into the outer except branch or answers; with nothing to
\* process the run returns True
SelectFeedback(r) ==
    /\ run[r].pc = "select"
    /\ LET st == run[r].stats
           df == UnprocessedFeedback(DefaultProcessingBatchSize)
       IN  \/ /\ faults < MaxFaults
              /\ faults' = faults + 1
              /\ run' = [run EXCEPT ![r] =
                            [pc |-> "idle", feedback_df |-> <<>>,
                             stats |-> [st EXCEPT !.errors = @ + 1],
                             returned |-> "false"]]
           \/ /\ UNCHANGED faults
              /\ run' = [run EXCEPT ![r] =
                            IF df = <<>>
                            THEN [pc |-> "idle", feedback_df |-> <<>>, stats |-> st,
                                  returned |-> "true"]
                            ELSE [pc |-> "sentiment", feedback_df |-> df,
                                  stats |-> [st EXCEPT !.feedback_processed = Len(df)],
                                  returned |-> "none"]]
    /\ UNCHANGED <<pc, callVars, cleanVars, loopVars, pipeVars, topicVars, summary,
                   arrived, sentiment_analysis, topic_analysis>>

\* run_sentiment_analysis on a frame when the estimators answer a: a row
\* whose analysis raises is counted and gets no record
SentimentOutcome(df, a) ==
    LET failed ==
            {k \in 1..Len(df) :
                analyze_sentiment(FrameTexts(df)[k], DefaultVaderWeight,
                                  DefaultTextblobWeight, a[k]).raised}
    IN  [errors |-> Cardinality(failed),
         rows |-> SelectSeq(df, LAMBDA f :
                     \E k \in 1..Len(df) : df[k] = f /\ k \notin failed)]

\* what run_sentiment_analysis can return for each frame
SentimentOutcomes ==
    [df \in Frames |->
        {SentimentOutcome(df, a) : a \in [1..Len(df) -> BatchAnswers]}]

\* run_sentiment_analysis on the frame, then save_sentiment_results unless
\* there is no record: the insert appends the records or fails, which ends
\* the run
SentimentStep(r) ==
    /\ run[r].pc = "sentiment"
    /\ \E o \in SentimentOutcomes[run[r].feedback_df] :
           LET st == [run[r].stats EXCEPT !.errors = @ + o.errors,
                                          !.sentiment_analyzed = Len(o.rows)]
           IN  /\ faults + o.errors <= MaxFaults
               /\ \/ /\ faults' = faults + o.errors
                     /\ sentiment_analysis' = Inserted(sentiment_analysis, o.rows)
                     /\ run' = [run EXCEPT ![r] = [@ EXCEPT !.pc = "topics", !.stats = st]]
                  \/ /\ o.rows # <<>>
                     /\ faults + o.errors < MaxFaults
                     /\ faults' = faults + o.errors + 1
                     /\ UNCHANGED sentiment_analysis
                     /\ run' = [run EXCEPT ![r] =
                                   [pc |-> "idle", feedback_df |-> <<>>, stats |-> st,
                                    returned |-> "false"]]
    /\ UNCHANGED <<pc, callVars, cleanVars, loopVars, pipeVars, topicVars, summary,
                   arrived, topic_analysis>>

\* run_topic_extraction on a frame when KMeans answers labels: whether the
\* extraction raised, whether it gave topics, and the feedback ids of the
\* assignment rows
TopicOutcome(df, labels) ==
    LET docs == FrameTexts(df)
        extraction == extract_topics_kmeans(docs, DefaultNTopics, labels)
        dts == IF extraction.raised \/ extraction.list = <<>> THEN <<>>
               ELSE assign_topics_to_documents(docs, extraction.list).list
    IN  [raised |-> extraction.raised,
         extracted |-> extraction.list # <<>>,
         rows |-> TopicRows(df, dts)]

\* what run_topic_extraction can return for each frame
TopicOutcomes ==
    [df \in Frames |->
        {TopicOutcome(df, labels) :
            labels \in KMeansAnswers(FrameTexts(df), DefaultNTopics)}]

\* statistics after run_topic_extraction: topics_extracted is set only
\* when topics were extracted
AfterExtraction(st, o) ==
    IF o.raised THEN [st EXCEPT !.errors = @ + 1]
    ELSE IF ~o.extracted THEN st
    ELSE [st EXCEPT !.topics_extracted = Len(o.rows)]

\* run_topic_extraction on the same frame, save_topic_results unless there
\* is no row, then update_satisfaction_metrics and the success rate; a
\* failing insert ends the run before the success rate is set
TopicStep(r) ==
    /\ run[r].pc = "topics"
    /\ \E o \in TopicOutcomes[run[r].feedback_df] :
           LET st == AfterExtraction(run[r].stats, o)
           IN  \/ /\ UNCHANGED faults
                  /\ topic_analysis' = Inserted(topic_analysis, o.rows)
                  /\ run' = [run EXCEPT ![r] =
                                [pc |-> "idle", feedback_df |-> <<>>,
                                 stats |-> [st EXCEPT !.success_rate = SuccessRate(st)],
                                 returned |-> "true"]]
               \/ /\ o.rows # <<>>
                  /\ faults < MaxFaults
                  /\ faults' = faults + 1
                  /\ UNCHANGED topic_analysis
                  /\ run' = [run EXCEPT ![r] =
                                [pc |-> "idle", feedback_df |-> <<>>, stats |-> st,
                                 returned |-> "false"]]
    /\ UNCHANGED <<pc, callVars, cleanVars, loopVars, pipeVars, topicVars, summary,
                   arrived, sentiment_analysis>>

BeginSomeRun == \E r \in Runs : BeginRun(r)
SomeSelectFeedback == \E r \in Runs : SelectFeedback(r)
SomeSentimentStep == \E r \in Runs : SentimentStep(r)
SomeTopicStep == \E r \in Runs : TopicStep(r)

InitRuns ==
    /\ pc = "runs"
    /\ vader_weight = DefaultVaderWeight
    /\ textblob_weight = DefaultTextblobWeight
    /\ NoCall
    /\ NoLoop
    /\ NoPipeline
    /\ NoTopics
    /\ NoRun

NextRuns ==
    \/ AddFeedback
    \/ BeginSomeRun
    \/ SomeSelectFeedback
    \/ SomeSentimentStep
    \/ SomeTopicStep

\* the scheduler starts its pipeline again and again, and a started run
\* takes its steps; nothing makes a client call POST /pipeline/run
RunsFairness ==
    /\ WF_vars(BeginRun("scheduled"))
    /\ \A r \in Runs :
          WF_vars(SelectFeedback(r)) /\ WF_vars(SentimentStep(r)) /\ WF_vars(TopicStep(r))

SpecRuns == InitRuns /\ [][NextRuns]_vars /\ RunsFairness

----------------------------------------------------------------------------
(* Claims about the runs of the pipeline *)

\* C28: after any run of process_new_feedback the success rate,
\* (sentiment_analyzed + topics_extracted) / (2 * feedback_processed) * 100,
\* lies in [0, 100], topics_extracted counting the assignment rows
C28_SuccessRateIsPercentage ==
    \A r \in Runs :
        /\ 0 <= run[r].stats.success_rate
        /\ run[r].stats.success_rate <= 100 * 100

\* C29: across repeated runs every feedback item whose sentiment record was
\* saved eventually has its topic assignments saved: when the topic
\* extraction or save_topic_results fails in a run, a later run selects
\* the item again
C29_TopicsEventuallySaved ==
    \A f \in 1..MaxFeedback :
        (sentiment_analysis[f] > 0) ~> (topic_analysis[f] > 0)

\* C30: no feedback item ever receives more than one sentiment_analysis
\* record, also when two runs of the pipeline overlap
C30_OneSentimentRecordPerItem ==
    \A f \in 1..MaxFeedback : sentiment_analysis[f] <= 1

============================================================================
